---- MODULE Spec2Model ----
(***************************************************************************)
(* The two tool-orchestration loops of the repository:                     *)
(*   run_agent       (backend/debate_agents.py), turn budget max_turns     *)
(*   run_meal_agent  (backend/main.py), turn budget 10                     *)
(* Each loop sends the transcript to a remote reasoning service, parses    *)
(* the response, dispatches the requested tools and appends their results. *)
(* The service is the environment: its responses and failures are chosen   *)
(* nondeterministically.  A text is a sequence of characters, a dict is a  *)
(* record (the empty dict is << >>), None is the record NoneVal.           *)
(***************************************************************************)
EXTENDS Integers, Sequences, FiniteSets, TLC

VARIABLES
    flow,          \* which loop runs: "agent" (run_agent) or "meal" (run_meal_agent)
    max_turns,     \* the turn budget: the parameter of run_agent, 10 in run_meal_agent
    pc,            \* the position of the loop
    turn,          \* the loop variable (turn / _turn)
    messages,      \* the running transcript
    final_text,    \* final_text
    tool_log,      \* tool_log (run_meal_agent)
    final_data,    \* final_data (run_meal_agent)
    response,      \* the response of the current turn, NoneVal while none is held
    tool_uses,     \* tool_uses of the current turn
    tool_results,  \* tool_results of the current turn
    result,        \* what the loop returned or raised
    requests,      \* history: every request sent to the service, in order
    dispatched,    \* history: every tool invocation handed to the dispatcher, in order
    failures,      \* history: every failure of a request, in order
    nextId,        \* service: the id the next tool invocation gets
    rich,          \* service: how many non-plain continuing answers it has given
    now,           \* time.time(), in seconds
    cache,         \* _cache of backend/main.py
    upstream,      \* the version of the catalog fetch_all_menus would return now
    snapshots,     \* history: what each _get_menus call of the cycle returned, in order
    documents,     \* MenuRAGSystem.documents
    inverted_index,\* MenuRAGSystem.inverted_index
    idf,           \* MenuRAGSystem.idf
    doc_lengths,   \* MenuRAGSystem.doc_lengths
    avg_doc_length,\* MenuRAGSystem.avg_doc_length, the fraction num / den
    built,         \* MenuRAGSystem._built
    catalog,       \* the all_menus the store is the index of, NoneVal for a store filled by hand
    called,        \* history: the last call made on the store and what it returned
    build_called,  \* history: build_index has been called on the store
    metadata,      \* _matches_dietary: the metadata argument
    restrictions,  \* _matches_dietary: the restrictions argument
    verdict,       \* _matches_dietary: what it returned, NoneVal before the call
    tool_name,     \* a dispatcher taken alone: the name of the tool it is called with
    tool_input,    \* a dispatcher taken alone: the input of the tool
    tool_world,    \* a dispatcher taken alone: what the tool reads (ranked matches, catalog, preferences)
    tool_return    \* a dispatcher taken alone: what it returned, NoneVal before the call

loopVars == << flow, max_turns, pc, turn, messages, final_text, tool_log, final_data,
               response, tool_uses, tool_results, result, requests, dispatched,
               failures, nextId, rich >>
cacheVars == << now, cache, upstream, snapshots >>
ragVars == << documents, inverted_index, idf, doc_lengths, avg_doc_length, built,
             catalog, called, build_called >>
dietVars == << metadata, restrictions, verdict >>
toolVars == << tool_name, tool_input, tool_world, tool_return >>

vars == << loopVars, cacheVars, ragVars, dietVars, toolVars >>

----------------------------------------------------------------------------
(* Bounds of the model *)

\* the store holds at most MaxDocs documents added by add_document
MaxDocs == 3

\* the clock advances at most MaxTicks times
MaxTicks == 2

\* the catalog changes upstream at most MaxVersions - 1 times
MaxVersions == 2

\* run_agent is explored for every budget max_turns in 0..MaxTurns
MaxTurns == 4
\* the service gives at most MaxRich continuing answers other than the plain one
MaxRich == 2

(* Program constants *)

\* for _turn in range(10)
MealTurns == 10
\* max_tokens of a turn's request
TurnMaxTokens == 2048
\* max_tokens of the closing exchange
ClosingMaxTokens == 256

NoneVal == [isNone |-> TRUE]
EmptyDict == << >>
Marker == << "[Agent did not produce a response]" >>
UserMessage == [role |-> "user", content |-> << [type |-> "text", text |-> << "u" >>] >>]
NudgeBlock == [type |-> "text", text |-> << "nudge" >>]

----------------------------------------------------------------------------
(* Helpers over sequences *)

Last(s) == s[Len(s)]

RECURSIVE SelectIdx(_, _, _)
\* the indexes i >= from of s with s[i].type = ty, in order
SelectIdx(s, ty, from) ==
    IF from > Len(s) THEN << >>
    ELSE IF s[from].type = ty THEN << from >> \o SelectIdx(s, ty, from + 1)
    ELSE SelectIdx(s, ty, from + 1)

RECURSIVE Concat(_)
\* "".join(parts)
Concat(parts) ==
    IF parts = << >> THEN << >> ELSE Head(parts) \o Concat(Tail(parts))

RECURSIVE LStrip(_)
LStrip(t) == IF t # << >> /\ Head(t) = " " THEN LStrip(Tail(t)) ELSE t

RECURSIVE RStrip(_)
RStrip(t) == IF t # << >> /\ Last(t) = " " THEN RStrip(SubSeq(t, 1, Len(t) - 1)) ELSE t

\* str.strip()
Strip(t) == RStrip(LStrip(t))

\* dict.get(key, default)
Get(d, key, default) == IF key \in DOMAIN d THEN d[key] ELSE default

----------------------------------------------------------------------------
(* The reasoning service: what client.messages.create can answer *)

Txt(t) == [type |-> "text", text |-> t]
\* a tool invocation as the service writes it; the id is given when it answers
Use(name, input) == [type |-> "tool_use", id |-> 0, name |-> name, input |-> input]

\* a block that has neither a text nor the type tool_use: both loops skip it
Thinking == [type |-> "thinking"]

\* send_recommendation payloads: complete, without recommendations and summary, empty
PFull == [meal_type |-> "lunch", recommendations |-> << "r1", "r2" >>, summary |-> << "s" >>]
PPartial == [meal_type |-> "lunch"]
PEmpty == EmptyDict

StopReasons == { "end_turn", "tool_use", "max_tokens" }

\* the contents the service answers a turn of run_agent with
AgentContents ==
    { << >>,
      << Txt(<< "a" >>) >>,
      << Use("search_menu", [query |-> "q"]) >>,
      << Thinking, Txt(<< "a" >>), Use("filter_by_dietary_need", [restriction |-> "vegan"]), Txt(<< "b" >>) >>,
      << Use("compare_nutrition", [item_names |-> << "n" >>]), Use("bogus", EmptyDict) >> }

\* the contents the service answers a turn of run_meal_agent with
MealContents ==
    { << >>,
      << Txt(<< "a" >>) >>,
      << Use("get_menu", [meal_type |-> "current"]) >>,
      << Txt(<< "a" >>), Use("check_user_goals", EmptyDict), Use("get_nutrition", [item_names |-> << "n" >>]) >>,
      << Thinking, Use("bogus", EmptyDict), Txt(<< "b" >>) >>,
      << Use("send_recommendation", PFull) >>,
      << Use("send_recommendation", PEmpty) >>,
      << Use("send_recommendation", PPartial), Use("get_menu", [meal_type |-> "current"]) >>,
      << Use("send_recommendation", PFull), Use("send_recommendation", PEmpty) >> }

\* the contents the service answers the closing exchange with
ClosingContents ==
    { << >>,
      << Txt(<< " " >>) >>,
      << Txt(<< >>), Txt(<< " ", "c", " " >>), Txt(<< "d" >>) >>,
      << Use("get_menu", [meal_type |-> "current"]), Txt(<< "c" >>) >>,
      << Use("send_recommendation", PFull) >> }

\* a failure of the service: which of the words the lower-cased error text holds
Errors == { [mentions |-> {}], [mentions |-> { "tool" }], [mentions |-> { "function" }] }

\* the plain continuing answer: one invocation of the flow's first tool
PlainContent(f) ==
    IF f = "agent" THEN << Use("search_menu", [query |-> "q"]) >>
    ELSE << Use("get_menu", [meal_type |-> "current"]) >>

\* the number of tool invocations among the first n blocks of c
RECURSIVE CountUses(_, _)
CountUses(c, n) ==
    IF n = 0 THEN 0
    ELSE CountUses(c, n - 1) + (IF c[n].type = "tool_use" THEN 1 ELSE 0)

\* the service numbers the invocations of an answer from base on
AssignIds(c, base) ==
    [i \in 1..Len(c) |->
        IF c[i].type = "tool_use"
        THEN [c[i] EXCEPT !.id = base + CountUses(c, i) - 1]
        ELSE c[i]]

----------------------------------------------------------------------------
(* What both loops compute from a response *)

\* mutant of InRange: the loop runs one turn too many
InRangeOneMore(t, n) == t <= n

\* for turn in range(max_turns) / for _turn in range(10): the loop body runs for turn t
InRange(t, n) == t < n

\* text_parts: the text of every block that has one, in order
TextParts(content) ==
    LET idx == SelectIdx(content, "text", 1)
    IN  [i \in 1..Len(idx) |-> content[idx[i]].text]

\* mutant of ToolUsesOf: the invocations in reverse order
ToolUsesReversed(content) ==
    LET idx == SelectIdx(content, "tool_use", 1)
    IN  [i \in 1..Len(idx) |-> content[idx[Len(idx) + 1 - i]]]

\* tool_uses: the blocks of type tool_use, in order
ToolUsesOf(content) ==
    LET idx == SelectIdx(content, "tool_use", 1)
    IN  [i \in 1..Len(idx) |-> content[idx[i]]]

\* final_text = "".join(text_parts)
JoinText(content) == Concat(TextParts(content))

\* mutant of Terminates: stop_reason is not looked at
TerminatesOnlyWithoutTools(stop_reason, uses) == uses = << >>

\* if response.stop_reason == "end_turn" or not tool_uses
Terminates(stop_reason, uses) == stop_reason = "end_turn" \/ uses = << >>

\* {"role": "assistant", "content": response.content}
AssistantMessage(content) == [role |-> "assistant", content |-> content]

\* {"role": "user", "content": tool_results}
ResultsMessage(results) == [role |-> "user", content |-> results]

\* a result that is tagged with no invocation
ToolResultUntagged(tu, content) == [type |-> "tool_result", tool_use_id |-> 0, content |-> content]

\* {"type": "tool_result", "tool_use_id": tu.id, "content": ...}
ToolResult(tu, content) == [type |-> "tool_result", tool_use_id |-> tu.id, content |-> content]

\* the record of a request in the history
Request(kind, t, tools, max_tokens, msgs) ==
    [kind |-> kind, turn |-> t, tools |-> tools, max_tokens |-> max_tokens, nmsgs |-> Len(msgs),
     messages |-> msgs]

\* the record of a failure in the history
Failure(kind, t, e) == [kind |-> kind, turn |-> t, error |-> e]

\* the record of a dispatch in the history
Dispatch(t, tu) == [turn |-> t, id |-> tu.id, name |-> tu.name, input |-> tu.input]

----------------------------------------------------------------------------
(* run_agent, backend/debate_agents.py *)

\* mutant of IsLast: compared with max_turns, which no turn reaches
IsLastOffByOne(t, n) == t = n

\* is_last = (turn == max_turns - 1)
IsLast(t, n) == t = n - 1

\* if not is_last: create_kwargs["tools"] = TOOLS
AgentOffersTools(t, n) == ~IsLast(t, n)

\* if "tool" in str(e).lower() or "function" in str(e).lower()
ToolRelated(e) == "tool" \in e.mentions \/ "function" \in e.mentions

\* a dispatcher that answers every name as if it were a tool
ExecuteToolAnyName(name, input) == << "result of", name, input >>

\* execute_tool: the text a tool returns. The index and the menus are not part of
\* this model: the text of a known tool stands for what it reads from them.
ExecuteTool(name, input) ==
    IF name \in { "search_menu", "filter_by_dietary_need", "compare_nutrition" }
    THEN << "result of", name, input >>
    ELSE << "Unknown tool: ", name >>

\* mutant of IsNudgeTurn: the nudge comes on the last turn
IsNudgeTurnLast(t, n) == t = n - 1

\* if turn == max_turns - 2
IsNudgeTurn(t, n) == t = n - 2

\* mutant of FinalOrMarker: the empty text is returned as it is
FinalWithoutMarker(ft) == ft

\* return final_text or "[Agent did not produce a response]"
FinalOrMarker(ft) == IF ft = << >> THEN Marker ELSE ft

Returned(v) == [kind |-> "returned", value |-> v]
Raised(e) == [kind |-> "raised", error |-> e]

\* top of the loop body: the request of this turn is sent
AgentSend ==
    /\ flow = "agent" /\ pc = "loop" /\ InRange(turn, max_turns)
    /\ requests' = Append(requests,
           Request("turn", turn, AgentOffersTools(turn, max_turns), TurnMaxTokens, messages))
    /\ response' = NoneVal
    /\ pc' = "await"
    /\ UNCHANGED << failures, flow, max_turns, turn, messages, final_text, tool_log, final_data,
                    tool_uses, tool_results, result, dispatched, nextId, rich >>
    /\ UNCHANGED << cacheVars, ragVars, dietVars, toolVars >>

\* the request of the turn raises anthropic.APIError
AgentFail(e) ==
    /\ flow = "agent" /\ pc = "await"
    /\ IF ToolRelated(e)
       THEN /\ rich < MaxRich
            /\ rich' = rich + 1
            /\ requests' = Append(requests, Request("retry", turn, FALSE, TurnMaxTokens, messages))
            /\ pc' = "retry"
            /\ UNCHANGED result
       ELSE /\ result' = Raised(e)
            /\ pc' = "done"
            /\ UNCHANGED << requests, rich >>
    /\ failures' = Append(failures, Failure("turn", turn, e))
    /\ UNCHANGED << flow, max_turns, turn, messages, final_text, tool_log, final_data,
                    response, tool_uses, tool_results, dispatched, nextId >>
    /\ UNCHANGED << cacheVars, ragVars, dietVars, toolVars >>

\* the retry raises: it is outside the try block
AgentRetryFail(e) ==
    /\ flow = "agent" /\ pc = "retry"
    /\ result' = Raised(e)
    /\ pc' = "done"
    /\ failures' = Append(failures, Failure("retry", turn, e))
    /\ UNCHANGED << flow, max_turns, turn, messages, final_text, tool_log, final_data,
                    response, tool_uses, tool_results, requests, dispatched, nextId, rich >>
    /\ UNCHANGED << cacheVars, ragVars, dietVars, toolVars >>

\* a response arrives (to the request or to its retry) and is parsed
AgentRespond(c, sr) ==
    /\ flow = "agent" /\ pc \in { "await", "retry" }
    /\ LET content == AssignIds(c, nextId)
           uses == ToolUsesOf(content)
       IN  /\ \/ Terminates(sr, uses)
              \/ c = PlainContent(flow) /\ sr = "tool_use"
              \/ rich < MaxRich
           /\ rich' = IF Terminates(sr, uses) \/ (c = PlainContent(flow) /\ sr = "tool_use")
                      THEN rich ELSE rich + 1
           /\ nextId' = nextId + Len(uses)
           /\ response' = [content |-> content, stop_reason |-> sr]
           /\ final_text' = JoinText(content)
           /\ IF Terminates(sr, uses)
              THEN /\ result' = Returned(JoinText(content))
                   /\ pc' = "done"
                   /\ UNCHANGED << messages, tool_uses, tool_results >>
              ELSE /\ messages' = Append(messages, AssistantMessage(content))
                   /\ tool_uses' = uses
                   /\ tool_results' = << >>
                   /\ pc' = "dispatch"
                   /\ UNCHANGED result
    /\ UNCHANGED << failures, flow, max_turns, turn, tool_log, final_data, requests, dispatched >>
    /\ UNCHANGED << cacheVars, ragVars, dietVars, toolVars >>

\* one iteration of: for tu in tool_uses
AgentDispatch ==
    /\ flow = "agent" /\ pc = "dispatch" /\ Len(tool_results) < Len(tool_uses)
    /\ LET tu == tool_uses[Len(tool_results) + 1]
       IN  /\ dispatched' = Append(dispatched, Dispatch(turn, tu))
           /\ tool_results' = Append(tool_results, ToolResult(tu, ExecuteTool(tu.name, tu.input)))
    /\ UNCHANGED << failures, flow, max_turns, pc, turn, messages, final_text, tool_log, final_data,
                    response, tool_uses, result, requests, nextId, rich >>
    /\ UNCHANGED << cacheVars, ragVars, dietVars, toolVars >>

\* after the for loop: the nudge, the results message, the next turn
AgentEndTurn ==
    /\ flow = "agent" /\ pc = "dispatch" /\ Len(tool_results) = Len(tool_uses)
    /\ messages' = Append(messages, ResultsMessage(
           IF IsNudgeTurn(turn, max_turns) THEN Append(tool_results, NudgeBlock) ELSE tool_results))
    /\ turn' = turn + 1
    /\ pc' = "loop"
    /\ UNCHANGED << failures, flow, max_turns, final_text, tool_log, final_data, response, tool_uses,
                    tool_results, result, requests, dispatched, nextId, rich >>
    /\ UNCHANGED << cacheVars, ragVars, dietVars, toolVars >>

\* the for loop is over
AgentExhausted ==
    /\ flow = "agent" /\ pc = "loop" /\ ~InRange(turn, max_turns)
    /\ result' = Returned(FinalOrMarker(final_text))
    /\ pc' = "done"
    /\ UNCHANGED << failures, flow, max_turns, turn, messages, final_text, tool_log, final_data,
                    response, tool_uses, tool_results, requests, dispatched, nextId, rich >>
    /\ UNCHANGED << cacheVars, ragVars, dietVars, toolVars >>

----------------------------------------------------------------------------
(* The menu cache, backend/main.py *)

\* the lifetime of a cache entry, in seconds: now - _cache["ts"] < 600
CacheTtl == 600

\* fetch_all_menus(verbose=False): the meal and the catalog as they are upstream
FetchAllMenus(version) == [meal |-> "lunch", menus |-> << "catalog", version >>]

\* _get_menus: if _cache.get("ts") and now - _cache["ts"] < 600
CacheHit(c, t) == Get(c, "ts", 0) # 0 /\ t - c.ts < CacheTtl

\* _get_menus: _cache after the call
CacheAfter(c, t, version) ==
    IF CacheHit(c, t) THEN c
    ELSE [meal |-> FetchAllMenus(version).meal, menus |-> FetchAllMenus(version).menus, ts |-> t]

\* _get_menus: the pair (meal, menus) it returns
GetMenus(c, t, version) ==
    [meal |-> CacheAfter(c, t, version).meal, menus |-> CacheAfter(c, t, version).menus]

\* the tools whose branch of _execute_tool calls _get_menus
ReadsCatalog(name) == name \in { "get_menu", "get_nutrition" }

\* time passes
Tick ==
    /\ now < CacheTtl * (MaxTicks + 1)
    /\ now' = now + CacheTtl
    /\ UNCHANGED << cache, upstream, snapshots >>
    /\ UNCHANGED << loopVars, ragVars, dietVars, toolVars >>

\* the dining halls publish a changed catalog
Publish ==
    /\ upstream < MaxVersions
    /\ upstream' = upstream + 1
    /\ UNCHANGED << now, cache, snapshots >>
    /\ UNCHANGED << loopVars, ragVars, dietVars, toolVars >>

\* a concurrent request of the process calls _get_menus
OtherRequest ==
    /\ cache' = CacheAfter(cache, now, upstream)
    /\ UNCHANGED << now, upstream, snapshots >>
    /\ UNCHANGED << loopVars, ragVars, dietVars, toolVars >>

----------------------------------------------------------------------------
(* run_meal_agent, backend/main.py *)

\* user_prefs as the endpoints build it
UserPrefs == [restrictions |-> << "vegan" >>, calorie_goal |-> 2000, protein_goal |-> 50]

\* meal, _ = _get_menus()
CurrentMeal == "lunch"

\* _execute_tool: the dict a tool returns. The catalog is not part of this model:
\* the dict of get_menu and get_nutrition stands for what they read from it.
MealExecuteTool(name, input) ==
    CASE name = "check_user_goals" ->
           [restrictions |-> Get(UserPrefs, "restrictions", << >>),
            calorie_goal |-> Get(UserPrefs, "calorie_goal", 2000),
            protein_goal |-> Get(UserPrefs, "protein_goal", 50)]
      [] name = "get_menu" -> [meal |-> CurrentMeal, items |-> "catalog items"]
      [] name = "get_nutrition" -> [nutrition_data |-> "catalog items"]
      [] name = "send_recommendation" -> [status |-> "delivered", captured |-> input]
      [] OTHER -> [error |-> << "Unknown tool: ", name >>]

\* _summarize_tool
SummarizeTool(name, res, input) ==
    CASE name = "check_user_goals" -> << "goals", res.restrictions, res.calorie_goal, res.protein_goal >>
      [] name = "get_menu" -> << "matching items" >>
      [] name = "get_nutrition" -> << "retrieved" >>
      [] name = "send_recommendation" ->
           << Len(Get(input, "recommendations", << >>)), "recommendation(s) packaged" >>
      [] OTHER -> << >>

\* an entry that records the outcome of the tool where its input belongs
LogEntryOfOutcome(tu, res) ==
    [tool |-> tu.name, input |-> res, result_summary |-> SummarizeTool(tu.name, res, tu.input)]

\* the entry tool_log gets for an invocation
LogEntry(tu, res) ==
    [tool |-> tu.name, input |-> tu.input, result_summary |-> SummarizeTool(tu.name, res, tu.input)]

\* json.dumps(result)[:3000]: the serialised dict, cut
JsonDumps(res) == << "json", res >>

\* the truth value of a dict or None: if final_data
Truthy(d) == d # NoneVal /\ DOMAIN d # {}

\* the first payload is kept, later ones are dropped
CaptureFirst(fd, tu) == IF tu.name = "send_recommendation" /\ fd = NoneVal THEN tu.input ELSE fd

\* final_data after an invocation: if tu.name == "send_recommendation": final_data = tu.input
CaptureFinal(fd, tu) == IF tu.name = "send_recommendation" THEN tu.input ELSE fd

\* tools=AGENT_TOOLS in every request of run_meal_agent
MealOffersTools == TRUE

RECURSIVE ClosingText(_, _)
\* for b in closing.content: the first text that is not blank, stripped; else final_text
ClosingText(content, ft) ==
    IF content = << >> THEN ft
    ELSE IF Head(content).type = "text" /\ Strip(Head(content).text) # << >>
         THEN Strip(Head(content).text)
         ELSE ClosingText(Tail(content), ft)

\* mutant of ErrorPayload: the tool log gathered so far is dropped
ErrorPayloadWithoutLog(e, log) == [error |-> e, tool_log |-> << >>, fallback |-> TRUE]

\* return {"error": str(e), "tool_log": tool_log, "fallback": True}
ErrorPayload(e, log) == [error |-> e, tool_log |-> log, fallback |-> TRUE]

\* the dict returned after the loop
MealResult(log, fd, ft) ==
    [meal |-> CurrentMeal,
     date |-> "today",
     tool_log |-> log,
     recommendations |-> IF Truthy(fd) THEN Get(fd, "recommendations", << >>) ELSE << >>,
     summary |-> IF Truthy(fd) THEN Get(fd, "summary", ft) ELSE ft,
     final_text |-> ft]

\* top of the loop body: the request of this turn is sent
MealSend ==
    /\ flow = "meal" /\ pc = "loop" /\ InRange(turn, max_turns)
    /\ requests' = Append(requests, Request("turn", turn, MealOffersTools, TurnMaxTokens, messages))
    /\ response' = NoneVal
    /\ pc' = "await"
    /\ UNCHANGED << failures, flow, max_turns, turn, messages, final_text, tool_log, final_data,
                    tool_uses, tool_results, result, dispatched, nextId, rich >>
    /\ UNCHANGED << cacheVars, ragVars, dietVars, toolVars >>

\* the request of the turn raises: except Exception
MealFail(e) ==
    /\ flow = "meal" /\ pc = "await"
    /\ result' = Returned(ErrorPayload(e, tool_log))
    /\ pc' = "done"
    /\ failures' = Append(failures, Failure("turn", turn, e))
    /\ UNCHANGED << flow, max_turns, turn, messages, final_text, tool_log, final_data,
                    response, tool_uses, tool_results, requests, dispatched, nextId, rich >>
    /\ UNCHANGED << cacheVars, ragVars, dietVars, toolVars >>

\* a response arrives and is parsed
MealRespond(c, sr) ==
    /\ flow = "meal" /\ pc = "await"
    /\ LET content == AssignIds(c, nextId)
           uses == ToolUsesOf(content)
       IN  /\ \/ Terminates(sr, uses)
              \/ c = PlainContent(flow) /\ sr = "tool_use"
              \/ rich < MaxRich
           /\ rich' = IF Terminates(sr, uses) \/ (c = PlainContent(flow) /\ sr = "tool_use")
                      THEN rich ELSE rich + 1
           /\ nextId' = nextId + Len(uses)
           /\ response' = [content |-> content, stop_reason |-> sr]
           /\ final_text' = JoinText(content)
           /\ IF Terminates(sr, uses)
              THEN /\ result' = Returned(MealResult(tool_log, final_data, JoinText(content)))
                   /\ pc' = "done"
                   /\ UNCHANGED << messages, tool_uses, tool_results >>
              ELSE /\ messages' = Append(messages, AssistantMessage(content))
                   /\ tool_uses' = uses
                   /\ tool_results' = << >>
                   /\ pc' = "dispatch"
                   /\ UNCHANGED result
    /\ UNCHANGED << failures, flow, max_turns, turn, tool_log, final_data, requests, dispatched >>
    /\ UNCHANGED << cacheVars, ragVars, dietVars, toolVars >>

\* one iteration of: for tu in tool_uses
MealDispatch ==
    /\ flow = "meal" /\ pc = "dispatch" /\ Len(tool_results) < Len(tool_uses)
    /\ LET tu == tool_uses[Len(tool_results) + 1]
           res == MealExecuteTool(tu.name, tu.input)
       IN  /\ dispatched' = Append(dispatched, Dispatch(turn, tu))
           /\ tool_log' = Append(tool_log, LogEntry(tu, res))
           /\ final_data' = CaptureFinal(final_data, tu)
           /\ tool_results' = Append(tool_results, ToolResult(tu, JsonDumps(res)))
           /\ IF ReadsCatalog(tu.name)
              THEN /\ cache' = CacheAfter(cache, now, upstream)
                   /\ snapshots' = Append(snapshots, GetMenus(cache, now, upstream))
              ELSE UNCHANGED << cache, snapshots >>
    /\ UNCHANGED << now, upstream >>
    /\ UNCHANGED << failures, flow, max_turns, pc, turn, messages, final_text, response, tool_uses,
                    result, requests, nextId, rich >>
    /\ UNCHANGED << ragVars, dietVars, toolVars >>

\* after the for loop: the results message, then the closing exchange or the next turn
MealEndTurn ==
    /\ flow = "meal" /\ pc = "dispatch" /\ Len(tool_results) = Len(tool_uses)
    /\ messages' = Append(messages, ResultsMessage(tool_results))
    /\ IF Truthy(final_data)
       THEN /\ requests' = Append(requests,
                   Request("closing", turn, MealOffersTools, ClosingMaxTokens, messages'))
            /\ pc' = "closing"
            /\ UNCHANGED turn
       ELSE /\ turn' = turn + 1
            /\ pc' = "loop"
            /\ UNCHANGED requests
    /\ UNCHANGED << failures, flow, max_turns, final_text, tool_log, final_data, response, tool_uses,
                    tool_results, result, dispatched, nextId, rich >>
    /\ UNCHANGED << cacheVars, ragVars, dietVars, toolVars >>

\* the closing exchange answers; its stop_reason is not read
MealClosingRespond(c) ==
    /\ flow = "meal" /\ pc = "closing"
    /\ final_text' = ClosingText(c, final_text)
    /\ result' = Returned(MealResult(tool_log, final_data, ClosingText(c, final_text)))
    /\ pc' = "done"
    /\ UNCHANGED << failures, flow, max_turns, turn, messages, tool_log, final_data, response,
                    tool_uses, tool_results, requests, dispatched, nextId, rich >>
    /\ UNCHANGED << cacheVars, ragVars, dietVars, toolVars >>

\* the closing exchange raises: except Exception: pass
MealClosingFail(e) ==
    /\ flow = "meal" /\ pc = "closing"
    /\ result' = Returned(MealResult(tool_log, final_data, final_text))
    /\ pc' = "done"
    /\ failures' = Append(failures, Failure("closing", turn, e))
    /\ UNCHANGED << flow, max_turns, turn, messages, final_text, tool_log, final_data,
                    response, tool_uses, tool_results, requests, dispatched, nextId, rich >>
    /\ UNCHANGED << cacheVars, ragVars, dietVars, toolVars >>

\* the for loop is over
MealExhausted ==
    /\ flow = "meal" /\ pc = "loop" /\ ~InRange(turn, max_turns)
    /\ result' = Returned(MealResult(tool_log, final_data, final_text))
    /\ pc' = "done"
    /\ UNCHANGED << failures, flow, max_turns, turn, messages, final_text, tool_log, final_data,
                    response, tool_uses, tool_results, requests, dispatched, nextId, rich >>
    /\ UNCHANGED << cacheVars, ragVars, dietVars, toolVars >>

----------------------------------------------------------------------------
(* The specification *)

\* the loops, the cache and the index before their first step
InitObjects ==
    /\ flow \in { "agent", "meal" }
    /\ max_turns \in (IF flow = "agent" THEN 0..MaxTurns ELSE { MealTurns })
    /\ pc = "loop"
    /\ turn = 0
    /\ messages = << UserMessage >>
    /\ final_text = << >>
    /\ tool_log = << >>
    /\ final_data = NoneVal
    /\ response = NoneVal
    /\ tool_uses = << >>
    /\ tool_results = << >>
    /\ result = [kind |-> "none"]
    /\ requests = << >>
    /\ dispatched = << >>
    /\ failures = << >>
    /\ nextId = 1
    /\ rich = 0
    /\ now = CacheTtl
    /\ upstream = 1
    /\ cache = CacheAfter(EmptyDict, now, upstream)
    /\ snapshots = IF flow = "meal" THEN << GetMenus(EmptyDict, now, upstream) >> ELSE << >>
    /\ documents = << >>
    /\ inverted_index = << >>
    /\ idf = << >>
    /\ doc_lengths = << >>
    /\ avg_doc_length = [num |-> 0, den |-> 1]
    /\ built = FALSE
    /\ catalog = NoneVal
    /\ called = [op |-> "none"]
    /\ build_called = FALSE

Init ==
    /\ InitObjects
    /\ metadata = EmptyDict
    /\ restrictions = << >>
    /\ verdict = NoneVal
    /\ tool_name = "none"
    /\ tool_input = NoneVal
    /\ tool_world = NoneVal
    /\ tool_return = NoneVal

Next ==
    \/ AgentSend
    \/ \E e \in Errors : AgentFail(e)
    \/ \E e \in Errors : AgentRetryFail(e)
    \/ \E c \in AgentContents, sr \in StopReasons : AgentRespond(c, sr)
    \/ AgentDispatch
    \/ AgentEndTurn
    \/ AgentExhausted
    \/ MealSend
    \/ \E e \in Errors : MealFail(e)
    \/ \E c \in MealContents, sr \in StopReasons : MealRespond(c, sr)
    \/ MealDispatch
    \/ MealEndTurn
    \/ \E c \in ClosingContents : MealClosingRespond(c)
    \/ \E e \in Errors : MealClosingFail(e)
    \/ MealExhausted

Spec == Init /\ [][Next]_vars

\* the contents the service answers a turn with while the cache is watched
CycleContents ==
    { << Txt(<< "a" >>) >>,
      << Use("get_menu", [meal_type |-> "current"]) >>,
      << Use("check_user_goals", EmptyDict), Use("get_nutrition", [item_names |-> << "n" >>]) >>,
      << Use("send_recommendation", PFull) >> }

\* one recommendation cycle of run_meal_agent while time passes, the catalog
\* changes upstream and other requests use the cache
InitCycle == Init /\ flow = "meal"

NextCycle ==
    \/ MealSend
    \/ \E e \in Errors : MealFail(e)
    \/ \E c \in CycleContents, sr \in StopReasons : MealRespond(c, sr)
    \/ MealDispatch
    \/ MealEndTurn
    \/ \E c \in ClosingContents : MealClosingRespond(c)
    \/ \E e \in Errors : MealClosingFail(e)
    \/ MealExhausted
    \/ Tick
    \/ Publish
    \/ OtherRequest

SpecCycle == InitCycle /\ [][NextCycle]_vars

----------------------------------------------------------------------------
(* Strings of the retrieval engine: a string is a sequence of characters *)

UpperCase == << "A", "B", "C", "D", "E", "F", "G", "H", "I", "J", "K", "L", "M",
                "N", "O", "P", "Q", "R", "S", "T", "U", "V", "W", "X", "Y", "Z" >>
LowerCase == << "a", "b", "c", "d", "e", "f", "g", "h", "i", "j", "k", "l", "m",
                "n", "o", "p", "q", "r", "s", "t", "u", "v", "w", "x", "y", "z" >>
Digits == << "0", "1", "2", "3", "4", "5", "6", "7", "8", "9" >>

\* the position of x in the sequence s, 0 when it is not there
IndexOf(s, x) == IF \E i \in DOMAIN s : s[i] = x THEN CHOOSE i \in DOMAIN s : s[i] = x ELSE 0

LowerChar(c) == IF IndexOf(UpperCase, c) # 0 THEN LowerCase[IndexOf(UpperCase, c)] ELSE c

\* str.lower()
Lower(s) == [i \in 1..Len(s) |-> LowerChar(s[i])]

\* \w of the regular expression: a letter, a digit or the underscore
WordChars ==
    { LowerCase[i] : i \in DOMAIN LowerCase } \cup { UpperCase[i] : i \in DOMAIN UpperCase }
        \cup { Digits[i] : i \in DOMAIN Digits } \cup { "_" }

IsWordChar(c) == c \in WordChars

\* where a maximal run of word characters of s starts
WordStarts(s) == { i \in DOMAIN s : IsWordChar(s[i]) /\ (i = 1 \/ ~IsWordChar(s[i - 1])) }

\* where the run of word characters that starts at i ends
WordEnd(s, i) ==
    CHOOSE j \in i..Len(s) :
        /\ \A k \in i..j : IsWordChar(s[k])
        /\ (j = Len(s) \/ ~IsWordChar(s[j + 1]))

\* re.findall(r"\b\w+\b", s): the maximal runs of word characters, left to right
FindWords(s) ==
    [k \in 1..Cardinality(WordStarts(s)) |->
        LET i == CHOOSE i \in WordStarts(s) : Cardinality({ j \in WordStarts(s) : j < i }) = k - 1
        IN  SubSeq(s, i, WordEnd(s, i))]

\* MenuRAGSystem._tokenize
Tokenize(text) == FindWords(Lower(text))

\* needle in hay, for strings
Contains(hay, needle) ==
    \E i \in 0..(Len(hay) - Len(needle)) : SubSeq(hay, i + 1, i + Len(needle)) = needle

RECURSIVE Join(_, _)
\* sep.join(parts)
Join(parts, sep) ==
    IF parts = << >> THEN << >>
    ELSE IF Len(parts) = 1 THEN Head(parts)
    ELSE Head(parts) \o sep \o Join(Tail(parts), sep)

\* f(v), with v computed once
With(v, f(_)) == CHOOSE r \in { f(x) : x \in { v } } : TRUE

\* d[key] = value, for a dict without order
Put(d, key, value) == [x \in DOMAIN d \cup { key } |-> IF x = key THEN value ELSE d[x]]

----------------------------------------------------------------------------
(* MenuRAGSystem, backend/rag_system.py: the store and its index.           *)
(* The object is the record self of its fields.  Floats are fixed-point:    *)
(* an idf or a score is a whole number of 1/Unit, avg_doc_length is the     *)
(* fraction num / den.                                                      *)

\* the resolution of idf values and scores
Unit == 10000

\* BM25_K1 = 1.5 and BM25_B = 0.75, as fractions
BM25_K1 == [num |-> 3, den |-> 2]
BM25_B == [num |-> 3, den |-> 4]

\* MenuRAGSystem.__init__
NewStore ==
    [documents |-> << >>, inverted_index |-> << >>, idf |-> << >>, doc_lengths |-> << >>,
     avg_doc_length |-> [num |-> 0, den |-> 1], built |-> FALSE]

\* the object as the variables hold it
Self ==
    [documents |-> documents, inverted_index |-> inverted_index, idf |-> idf,
     doc_lengths |-> doc_lengths, avg_doc_length |-> avg_doc_length, built |-> built]

\* tf[tok] of add_document: how often term occurs in tokens
Count(tokens, term) == Cardinality({ i \in DOMAIN tokens : tokens[i] = term })

\* MenuRAGSystem.add_document
add_document(self, doc_id, text, md) ==
    With(Tokenize(text), LAMBDA tokens :
        LET terms == { tokens[i] : i \in DOMAIN tokens }
        IN  [self EXCEPT
                !.documents = Append(@, [id |-> doc_id, text |-> text, metadata |-> md]),
                !.doc_lengths = Put(@, doc_id, Len(tokens)),
                !.inverted_index =
                    [t \in DOMAIN @ \cup terms |->
                        IF t \in terms
                        THEN Append(Get(@, t, << >>), << doc_id, Count(tokens, t) >>)
                        ELSE @[t]]])

RECURSIVE SumValues(_)
\* sum(d.values())
SumValues(d) ==
    IF DOMAIN d = {} THEN 0
    ELSE LET k == CHOOSE x \in DOMAIN d : TRUE
         IN  d[k] + SumValues([x \in DOMAIN d \ { k } |-> d[x]])

RECURSIVE LnSeries(_, _, _)
\* sum of z^j / j over the odd j from k on, z and the sum in 1/Unit, power = z^k
LnSeries(z, power, k) ==
    IF power = 0 THEN 0
    ELSE power \div k + LnSeries(z, (((power * z) \div Unit) * z) \div Unit, k + 2)

\* math.log(p / q) for p > q > 0, in 1/Unit: 2 * atanh((p - q) / (p + q))
Ln(p, q) == 2 * LnSeries(((p - q) * Unit) \div (p + q), ((p - q) * Unit) \div (p + q), 1)

\* math.log((n - df + 0.5) / (df + 0.5) + 1), in 1/Unit
IdfOf(n, df) == Ln(2 * n + 2, 2 * df + 1)

\* a build_index that keeps the idf of the terms it has seen before
build_index_delta(self) ==
    LET n == Len(self.documents)
    IN  IF n = 0 THEN self
        ELSE [self EXCEPT
                !.avg_doc_length = [num |-> SumValues(self.doc_lengths), den |-> n],
                !.idf = [t \in DOMAIN @ \cup DOMAIN self.inverted_index |->
                            IF t \in DOMAIN @ THEN @[t]
                            ELSE IdfOf(n, Len(self.inverted_index[t]))],
                !.built = TRUE]

\* MenuRAGSystem.build_index
build_index(self) ==
    LET n == Len(self.documents)
    IN  IF n = 0 THEN self
        ELSE [self EXCEPT
                !.avg_doc_length = [num |-> SumValues(self.doc_lengths), den |-> n],
                !.idf = [t \in DOMAIN @ \cup DOMAIN self.inverted_index |->
                            IF t \in DOMAIN self.inverted_index
                            THEN IdfOf(n, Len(self.inverted_index[t]))
                            ELSE @[t]],
                !.built = TRUE]

----------------------------------------------------------------------------
(* The dietary filter, backend/rag_system.py.  A nutrition value is None,   *)
(* a number (Num, a whole number of hundredths) or a string (Str).          *)

\* the resolution of a number: hundredths
Cent == 100
Num(h) == [num |-> h]
Str(s) == [str |-> s]
Whole(n) == Num(n * Cent)

\* RESTRICTION_SYNONYMS, in the order of the dict
RESTRICTION_SYNONYMS ==
    << [key |-> << "v", "e", "g", "a", "n" >>,
        synonyms |-> << << "v", "e", "g", "a", "n" >>, << "p", "l", "a", "n", "t", "-", "b", "a", "s", "e", "d" >> >>],
       [key |-> << "v", "e", "g", "e", "t", "a", "r", "i", "a", "n" >>,
        synonyms |-> << << "v", "e", "g", "e", "t", "a", "r", "i", "a", "n" >>, << "v", "e", "g", "a", "n" >> >>],
       [key |-> << "g", "l", "u", "t", "e", "n", "-", "f", "r", "e", "e" >>,
        synonyms |-> << << "g", "l", "u", "t", "e", "n" >>, << "g", "l", "u", "t", "e", "n", "-", "f", "r", "e", "e" >>, << "g", "l", "u", "t", "e", "n", " ", "f", "r", "e", "e" >> >>],
       [key |-> << "h", "a", "l", "a", "l" >>,
        synonyms |-> << << "h", "a", "l", "a", "l" >> >>],
       [key |-> << "k", "o", "s", "h", "e", "r" >>,
        synonyms |-> << << "k", "o", "s", "h", "e", "r" >> >>],
       [key |-> << "d", "a", "i", "r", "y", "-", "f", "r", "e", "e" >>,
        synonyms |-> << << "d", "a", "i", "r", "y" >>, << "d", "a", "i", "r", "y", "-", "f", "r", "e", "e" >>, << "d", "a", "i", "r", "y", " ", "f", "r", "e", "e" >>, << "l", "a", "c", "t", "o", "s", "e" >> >>],
       [key |-> << "n", "u", "t", "-", "f", "r", "e", "e" >>,
        synonyms |-> << << "n", "u", "t" >>, << "p", "e", "a", "n", "u", "t" >>, << "t", "r", "e", "e", " ", "n", "u", "t" >> >>],
       [key |-> << "l", "o", "w", "-", "c", "a", "l", "o", "r", "i", "e" >>,
        synonyms |-> << >>],
       [key |-> << "h", "i", "g", "h", "-", "p", "r", "o", "t", "e", "i", "n" >>,
        synonyms |-> << >>] >>

\* the thresholds of the numeric restrictions and the stand-in for a missing calories value
HighProteinMin == 15
LowCalorieMax == 400
MissingCalories == 9999

\* the truth value of a nutrition value: None, 0 and "" are false
IsTrue(v) == v # NoneVal /\ v # Num(0) /\ v # Str(<< >>)

\* v or default
Or(v, default) == IF IsTrue(v) THEN v ELSE default

\* the value of a run of decimal digits, read left to right (0 for the empty run)
RECURSIVE DigitsValue(_)
DigitsValue(s) ==
    IF s = << >> THEN 0 ELSE 10 * DigitsValue(SubSeq(s, 1, Len(s) - 1)) + (IndexOf(Digits, Last(s)) - 1)

AllDigits(s) == \A i \in DOMAIN s : IndexOf(Digits, s[i]) # 0

\* float("nan") as a nutrition value
NaN == [nan |-> TRUE]

\* the floats: a finite number of hundredths, not-a-number, or an infinity
Finite(h) == [ok |-> TRUE, kind |-> "num", num |-> h]
NotANumber == [ok |-> TRUE, kind |-> "nan", num |-> 0]
Infinite(negative) == [ok |-> TRUE, kind |-> IF negative THEN "-inf" ELSE "inf", num |-> 0]

\* float(s) for a string: blanks around, an optional sign, then "nan", "inf" or
\* "infinity" in any case, or digits with at most one point and at least one
\* digit; anything else raises ValueError.  The digits after the second decimal
\* are dropped; exponents and underscores are not among the inputs.
ParseFloat(s) ==
    LET t == Strip(s)
        signed == t # << >> /\ Head(t) \in { "-", "+" }
        negative == signed /\ Head(t) = "-"
        body == IF signed THEN Tail(t) ELSE t
        dot == IndexOf(body, ".")
        whole == IF dot = 0 THEN body ELSE SubSeq(body, 1, dot - 1)
        frac == IF dot = 0 THEN << >> ELSE SubSeq(body, dot + 1, Len(body))
        cents == SubSeq(frac \o << "0", "0" >>, 1, 2)
        magnitude == DigitsValue(whole) * Cent + DigitsValue(cents)
    IN  IF Lower(body) = << "n", "a", "n" >> THEN NotANumber
        ELSE IF Lower(body) \in { << "i", "n", "f" >>, << "i", "n", "f", "i", "n", "i", "t", "y" >> }
        THEN Infinite(negative)
        ELSE IF AllDigits(whole) /\ AllDigits(frac) /\ Len(whole) + Len(frac) > 0
        THEN Finite(IF negative THEN 0 - magnitude ELSE magnitude)
        ELSE [ok |-> FALSE]

\* float(v): the float, or the failure TypeError / ValueError
Float(v) ==
    IF "num" \in DOMAIN v THEN Finite(v.num)
    ELSE IF "nan" \in DOMAIN v THEN NotANumber
    ELSE IF "str" \in DOMAIN v THEN ParseFloat(v.str)
    ELSE [ok |-> FALSE]

\* x < bound and x > bound for a float x and a bound in hundredths: false for nan
Less(x, bound) == x.kind = "-inf" \/ (x.kind = "num" /\ x.num < bound)
Greater(x, bound) == x.kind = "inf" \/ (x.kind = "num" /\ x.num > bound)

\* a table in which every restriction has itself as its only synonym
SynonymsOnlyItself(restriction) == << restriction >>

\* RESTRICTION_SYNONYMS.get(restriction, [restriction])
SynonymsOf(restriction) ==
    IF \E i \in DOMAIN RESTRICTION_SYNONYMS : RESTRICTION_SYNONYMS[i].key = restriction
    THEN RESTRICTION_SYNONYMS[CHOOSE i \in DOMAIN RESTRICTION_SYNONYMS :
                                 RESTRICTION_SYNONYMS[i].key = restriction].synonyms
    ELSE << restriction >>

\* the restriction is "high-protein" or "high protein"
IsHighProtein(r) == r \in { << "h", "i", "g", "h", "-", "p", "r", "o", "t", "e", "i", "n" >>,
                           << "h", "i", "g", "h", " ", "p", "r", "o", "t", "e", "i", "n" >> }

\* the restriction is "low-calorie" or "low calorie"
IsLowCalorie(r) == r \in { << "l", "o", "w", "-", "c", "a", "l", "o", "r", "i", "e" >>,
                          << "l", "o", "w", " ", "c", "a", "l", "o", "r", "i", "e" >> }

\* the body of the loop of _matches_dietary for one restriction: TRUE for continue,
\* FALSE for return False
PassesRestriction(md, restriction) ==
    LET flags == Get(md, "dietary_flags", << >>)
        flags_str == Join([i \in 1..Len(flags) |-> Lower(flags[i])], << " " >>)
        r == Strip(Lower(restriction))
        protein == Float(Or(Get(md, "protein_g", NoneVal), Num(0)))
        cal == Float(Or(Get(md, "calories", NoneVal), Whole(MissingCalories)))
    IN  IF IsHighProtein(r) THEN protein.ok /\ ~Less(protein, HighProteinMin * Cent)
        ELSE IF IsLowCalorie(r) THEN cal.ok /\ ~Greater(cal, LowCalorieMax * Cent)
        ELSE \E i \in DOMAIN SynonymsOf(r) : Contains(flags_str, SynonymsOf(r)[i])

\* a filter that judges the first restriction only
matches_first(md, rs) == rs = << >> \/ PassesRestriction(md, Head(rs))

RECURSIVE matches_dietary(_, _)
\* MenuRAGSystem._matches_dietary: for restriction in restrictions
matches_dietary(md, rs) ==
    IF rs = << >> THEN TRUE
    ELSE IF ~PassesRestriction(md, Head(rs)) THEN FALSE
    ELSE matches_dietary(md, Tail(rs))

----------------------------------------------------------------------------
(* MenuRAGSystem, backend/rag_system.py: scoring and search *)

Min(a, b) == IF a < b THEN a ELSE b
Max(a, b) == IF a > b THEN a ELSE b

\* max(self.avg_doc_length, 1), as a fraction
AtLeastOne(f) == IF f.num < f.den THEN [num |-> 1, den |-> 1] ELSE f

\* norm = 1 - BM25_B + BM25_B * dl / max(self.avg_doc_length, 1), as a fraction
NormOf(dl, avg) ==
    [num |-> (BM25_B.den - BM25_B.num) * AtLeastOne(avg).num + BM25_B.num * dl * AtLeastOne(avg).den,
     den |-> BM25_B.den * AtLeastOne(avg).num]

\* idf * (tf * (BM25_K1 + 1)) / (tf + BM25_K1 * norm), in 1/Unit
TermScore(w, tf, norm) ==
    (w * tf * (BM25_K1.num + BM25_K1.den) * norm.den)
        \div (tf * BM25_K1.den * norm.den + BM25_K1.num * norm.num)

\* the tf of the first posting of doc_id in postings, 0 when there is none
PostingOf(postings, doc_id) ==
    IF \E i \in DOMAIN postings : postings[i][1] = doc_id
    THEN postings[CHOOSE i \in DOMAIN postings :
                     /\ postings[i][1] = doc_id
                     /\ \A j \in 1..(i - 1) : postings[j][1] # doc_id][2]
    ELSE 0

RECURSIVE bm25_score(_, _, _)
\* MenuRAGSystem._bm25_score: for tok in query_tokens
bm25_score(self, doc_id, query_tokens) ==
    IF query_tokens = << >> THEN 0
    ELSE LET tok == Head(query_tokens)
             w == Get(self.idf, tok, 0)
             tf == PostingOf(Get(self.inverted_index, tok, << >>), doc_id)
             norm == NormOf(Get(self.doc_lengths, doc_id, 0), self.avg_doc_length)
         IN  (IF w = 0 \/ tf = 0 THEN 0 ELSE TermScore(w, tf, norm))
                 + bm25_score(self, doc_id, Tail(query_tokens))

\* scores[key] = value, for a dict in insertion order (a sequence of entries)
PutInOrder(entries, key, value) ==
    IF \E i \in DOMAIN entries : entries[i].key = key
    THEN [i \in DOMAIN entries |->
             IF entries[i].key = key THEN [key |-> key, value |-> value] ELSE entries[i]]
    ELSE Append(entries, [key |-> key, value |-> value])

\* an optional argument is None, a string (Str) or a list (List)
List(l) == [list |-> l]

\* the truth value of an optional argument: None, "" and [] are false
IsSet(filter) == filter # NoneVal /\ filter # Str(<< >>) /\ filter # List(<< >>)

\* a search that applies the hall filter only
PassesHallFilterOnly(doc, hall_filter, dietary_filter) ==
    ~(IsSet(hall_filter) /\ Lower(Get(doc.metadata, "hall", << >>)) # Lower(hall_filter.str))

\* search: the document passes the hall filter and the dietary filter
PassesFilters(doc, hall_filter, dietary_filter) ==
    /\ ~(IsSet(hall_filter) /\ Lower(Get(doc.metadata, "hall", << >>)) # Lower(hall_filter.str))
    /\ ~(IsSet(dietary_filter) /\ ~matches_dietary(doc.metadata, dietary_filter.list))

RECURSIVE ScoresOf(_, _, _, _, _)
\* search: scores after the first n documents of the loop
ScoresOf(self, query_tokens, hall_filter, dietary_filter, n) ==
    IF n = 0 THEN << >>
    ELSE With(ScoresOf(self, query_tokens, hall_filter, dietary_filter, n - 1), LAMBDA before :
             LET doc == self.documents[n]
             IN  IF PassesFilters(doc, hall_filter, dietary_filter)
                 THEN With(bm25_score(self, doc.id, query_tokens),
                           LAMBDA score : PutInOrder(before, doc.id, score))
                 ELSE before)

\* doc_map[doc_id]: the last stored document with that id
DocMap(self, doc_id) ==
    self.documents[CHOOSE i \in DOMAIN self.documents :
                      /\ self.documents[i].id = doc_id
                      /\ \A j \in (i + 1)..Len(self.documents) : self.documents[j].id # doc_id]

\* search: the tuples of the documents with a score above 0, in the order of scores
Scored(self, scores) ==
    With(SelectSeq(scores, LAMBDA e : e.value > 0), LAMBDA positive :
        [i \in 1..Len(positive) |->
            [id |-> positive[i].key, text |-> DocMap(self, positive[i].key).text,
             metadata |-> DocMap(self, positive[i].key).metadata, score |-> positive[i].value]])

RECURSIVE SortByScore(_)
\* results.sort(key=lambda x: x[3], reverse=True): descending, equal scores keep their order
SortByScore(s) ==
    IF Len(s) <= 1 THEN s
    ELSE With(SortByScore(SubSeq(s, 1, Len(s) - 1)), LAMBDA front :
             LET x == Last(s)
                 ahead == Cardinality({ i \in DOMAIN front : front[i].score >= x.score })
             IN  SubSeq(front, 1, ahead) \o << x >> \o SubSeq(front, ahead + 1, Len(front)))

\* s[:k]
Slice(s, k) == IF k >= 0 THEN SubSeq(s, 1, Min(k, Len(s))) ELSE SubSeq(s, 1, Max(Len(s) + k, 0))

\* a search that never builds the index itself
ReadyAsItIs(self) == self

\* search: if not self._built: self.build_index()
Ready(self) == IF ~self.built THEN build_index(self) ELSE self

\* MenuRAGSystem.search: the list it returns
search(self, query, top_k, hall_filter, dietary_filter) ==
    With(Ready(self), LAMBDA ready :
    With(Tokenize(query), LAMBDA query_tokens :
    With(ScoresOf(ready, query_tokens, hall_filter, dietary_filter, Len(ready.documents)),
         LAMBDA scores :
    With(Scored(ready, scores), LAMBDA results :
    With(SortByScore(results), LAMBDA sorted : Slice(sorted, top_k))))))

----------------------------------------------------------------------------
(* backend/rag_system.py: the builder of the index and the ranking of halls *)

\* MenuRAGSystem.get_all_halls: the halls of the first n documents, in order
RECURSIVE HallsOf(_, _)
HallsOf(self, n) ==
    IF n = 0 THEN << >>
    ELSE LET seen == HallsOf(self, n - 1)
             h == Get(self.documents[n].metadata, "hall", << >>)
         IN  IF h # << >> /\ \A i \in DOMAIN seen : seen[i] # h THEN Append(seen, h) ELSE seen

\* MenuRAGSystem.get_all_halls
get_all_halls(self) == HallsOf(self, Len(self.documents))

\* str(n) for a natural number
RECURSIVE NatStr(_)
NatStr(n) == IF n < 10 THEN << Digits[n + 1] >> ELSE NatStr(n \div 10) \o << Digits[(n % 10) + 1] >>

\* str(int(v)) for a number that is not negative
IntStr(v) == NatStr(v.num \div Cent)

\* str(v) for a number that is not negative: a whole number prints as an int
NumStr(v) ==
    IF v.num % Cent = 0 THEN NatStr(v.num \div Cent)
    ELSE NatStr(v.num \div Cent) \o << "." >> \o
         (IF v.num % 10 = 0 THEN << Digits[((v.num % Cent) \div 10) + 1] >>
          ELSE << Digits[((v.num % Cent) \div 10) + 1], Digits[(v.num % 10) + 1] >>)

\* build_rag_from_menus: f"{item.get(key)} grams {label}. " if item.get(key) else ""
GramsPart(item, key, label) ==
    IF IsTrue(Get(item, key, NoneVal))
    THEN NumStr(item[key]) \o << " ", "g", "r", "a", "m", "s", " " >> \o label \o << ".", " " >>
    ELSE << >>

\* build_rag_from_menus: item.get(key) and float(item[key]) >= bound (at_least) or <= bound
Reaches(item, key, bound, at_least) ==
    /\ IsTrue(Get(item, key, NoneVal))
    /\ IF at_least THEN item[key].num >= bound * Cent ELSE item[key].num <= bound * Cent

\* build_rag_from_menus: nutrient_tags
NutrientTags(item) ==
    (IF Reaches(item, "protein_g", 20, TRUE) THEN << << "h", "i", "g", "h", " ", "p", "r", "o", "t", "e", "i", "n" >> >> ELSE << >>)
    \o (IF Reaches(item, "calories", 300, FALSE) THEN << << "l", "o", "w", " ", "c", "a", "l", "o", "r", "i", "e", " ", "l", "i", "g", "h", "t" >> >> ELSE << >>)
    \o (IF Reaches(item, "calories", 700, TRUE) THEN << << "h", "e", "a", "r", "t", "y", " ", "f", "i", "l", "l", "i", "n", "g" >> >> ELSE << >>)
    \o (IF Reaches(item, "fiber_g", 5, TRUE) THEN << << "h", "i", "g", "h", " ", "f", "i", "b", "e", "r" >> >> ELSE << >>)

\* build_rag_from_menus: text, the document of an item
DocText(hall_name, station, item) ==
    item.name \o << " ", "s", "e", "r", "v", "e", "d", " ", "a", "t", " " >> \o hall_name
    \o << " ", "d", "i", "n", "i", "n", "g", " ", "h", "a", "l", "l", " ", "i", "n", " ", "t", "h", "e", " " >> \o station
    \o << " ", "s", "t", "a", "t", "i", "o", "n", ".", " ", "D", "i", "e", "t", "a", "r", "y", " ", "f", "l", "a", "g", "s", ":", " " >>
    \o (IF item.dietary_flags # << >> THEN Join(item.dietary_flags, << ",", " " >>)
        ELSE << "n", "o", " ", "s", "p", "e", "c", "i", "a", "l", " ", "f", "l", "a", "g", "s" >>) \o << ".", " " >>
    \o (IF IsTrue(Get(item, "calories", NoneVal))
        THEN IntStr(item.calories) \o << " ", "c", "a", "l", "o", "r", "i", "e", "s", ".", " " >> ELSE << >>)
    \o GramsPart(item, "protein_g", << "p", "r", "o", "t", "e", "i", "n" >>)
    \o GramsPart(item, "carbs_g", << "c", "a", "r", "b", "s" >>)
    \o GramsPart(item, "fat_g", << "f", "a", "t" >>)
    \o GramsPart(item, "fiber_g", << "f", "i", "b", "e", "r" >>)
    \o (IF NutrientTags(item) # << >> THEN Join(NutrientTags(item), << " " >>) \o << ".", " " >> ELSE << >>)
    \o Get(item, "description", << >>)

\* build_rag_from_menus: doc_id = f"{hall_name}::{station}::{item['name']}"
DocId(hall_name, station, item) ==
    hall_name \o << ":", ":" >> \o station \o << ":", ":" >> \o item.name

\* build_rag_from_menus: metadata = {**item, "hall": hall_name, "station": station}
DocMetadata(hall_name, station, item) ==
    [k \in DOMAIN item \cup { "hall", "station" } |->
        IF k = "hall" THEN hall_name ELSE IF k = "station" THEN station ELSE item[k]]

\* build_rag_from_menus: the loops, a catalog being the sequence of its halls, a
\* menu the sequence of its stations, in the order of the dicts
RECURSIVE AddItems(_, _, _, _)
AddItems(self, hall_name, station, items) ==
    IF items = << >> THEN self
    ELSE AddItems(add_document(self, DocId(hall_name, station, Head(items)),
                               DocText(hall_name, station, Head(items)),
                               DocMetadata(hall_name, station, Head(items))),
                  hall_name, station, Tail(items))

RECURSIVE AddStations(_, _, _)
AddStations(self, hall_name, menu) ==
    IF menu = << >> THEN self
    ELSE AddStations(AddItems(self, hall_name, Head(menu).station, Head(menu).items),
                     hall_name, Tail(menu))

RECURSIVE AddHalls(_, _)
AddHalls(self, all_menus) ==
    IF all_menus = << >> THEN self
    ELSE AddHalls(AddStations(self, Head(all_menus).hall, Head(all_menus).menu), Tail(all_menus))

\* build_rag_from_menus
build_rag_from_menus(all_menus) == build_index(AddHalls(NewStore, all_menus))

\* the top_k of the search of score_halls_for_user
HallTopK == 200

\* s.replace(a, b) for characters a and b
Replace(s, a, b) == [i \in 1..Len(s) |-> IF s[i] = a THEN b ELSE s[i]]

\* score_halls_for_user: query
HallQuery(prefs) ==
    Join(SelectSeq(<< Get(prefs, "goal", << >>), Get(prefs, "preferences", << >>),
                      Get(prefs, "restrictions", << >>) >>,
                   LAMBDA p : p # << >>),
         << " " >>)

\* score_halls_for_user: dietary_filter, the keys found in the restrictions text
RECURSIVE KeysIn(_, _)
KeysIn(raw, n) ==
    IF n = 0 THEN << >>
    ELSE IF \/ Contains(raw, Replace(RESTRICTION_SYNONYMS[n].key, "-", " "))
            \/ Contains(raw, RESTRICTION_SYNONYMS[n].key)
         THEN Append(KeysIn(raw, n - 1), RESTRICTION_SYNONYMS[n].key)
         ELSE KeysIn(raw, n - 1)

HallFilter(prefs) ==
    KeysIn(Lower(Get(prefs, "restrictions", << >>)), Len(RESTRICTION_SYNONYMS))

\* d.get(key, default) for a dict in insertion order
ValueIn(entries, key, default) ==
    IF \E i \in DOMAIN entries : entries[i].key = key
    THEN entries[CHOOSE i \in DOMAIN entries : entries[i].key = key].value
    ELSE default

\* score_halls_for_user: hall_scores after the first n results
RECURSIVE HallScores(_, _)
HallScores(results, n) ==
    IF n = 0 THEN << >>
    ELSE With(HallScores(results, n - 1), LAMBDA before :
             LET h == Get(results[n].metadata, "hall", << >>)
             IN  PutInOrder(before, h, ValueIn(before, h, 0) + results[n].score))

\* score_halls_for_user: the loop that fills top with halls out of all_halls
RECURSIVE FillUp(_, _, _)
FillUp(top, all_halls, top_n) ==
    IF all_halls = << >> \/ Len(top) >= top_n THEN top
    ELSE FillUp(IF \E i \in DOMAIN top : top[i] = Head(all_halls) THEN top
                ELSE Append(top, Head(all_halls)),
                Tail(all_halls), top_n)

\* score_halls_for_user: the list of (hall, score) it returns
score_halls_for_user(prefs, self, top_n) ==
    With(HallFilter(prefs), LAMBDA dietary_filter :
    With(search(self, HallQuery(prefs), HallTopK, NoneVal,
                IF dietary_filter # << >> THEN List(dietary_filter) ELSE NoneVal),
         LAMBDA results :
    With(HallScores(results, Len(results)), LAMBDA hall_scores :
    With(SortByScore([i \in 1..Len(hall_scores) |->
                         [hall |-> hall_scores[i].key, score |-> hall_scores[i].value]]),
         LAMBDA ranked :
    With(SelectSeq([i \in 1..Len(Slice(ranked, top_n)) |-> Slice(ranked, top_n)[i].hall],
                   LAMBDA h : h # << >>),
         LAMBDA top :
    With(FillUp(top, get_all_halls(self), top_n), LAMBDA filled :
        [i \in 1..Len(filled) |->
            [hall |-> filled[i], score |-> ValueIn(hall_scores, filled[i], 0)]]))))))

----------------------------------------------------------------------------
(* The retrieval engine on its own: a store filled by add_document or by    *)
(* build_rag_from_menus, indexed, searched and asked for a ranking of halls *)

\* the documents add_document is called with; the third has the id of the first
DocPool ==
    { [id |-> << "a" >>, text |-> << "T", "o", "f", "u", " ", "r", "i", "c", "e" >>,
       metadata |-> [hall |-> << "N", "o", "r", "t", "h" >>, dietary_flags |-> << << "V", "e", "g", "a", "n" >> >>,
                     protein_g |-> Whole(20), calories |-> Whole(300)]],
      [id |-> << "b" >>, text |-> << "r", "i", "c", "e", ",", " ", "r", "i", "c", "e", ":", " ", "e", "g", "g" >>,
       metadata |-> [hall |-> << "N", "o", "r", "t", "h" >>, dietary_flags |-> << >>,
                     protein_g |-> Whole(10), calories |-> Whole(500)]],
      [id |-> << "a" >>, text |-> << "t", "o", "f", "u" >>,
       metadata |-> [hall |-> << "S", "o", "u", "t", "h" >>, dietary_flags |-> << << "V", "e", "g", "e", "t", "a", "r", "i", "a", "n" >> >>,
                     protein_g |-> NoneVal, calories |-> NoneVal]],
      [id |-> << "c" >>, text |-> << "E", "g", "g", " ", "t", "o", "f", "u" >>,
       metadata |-> [hall |-> << "S", "o", "u", "t", "h" >>, dietary_flags |-> << << "v", "e", "g", "a", "n" >> >>,
                     protein_g |-> Whole(15), calories |-> Whole(0)]] }

\* the items of the catalogs; the second has the name of the first
Tofu ==
    [name |-> << "T", "o", "f", "u" >>, description |-> << "F", "r", "i", "e", "d" >>, calories |-> Whole(250),
     protein_g |-> Num(2050), dietary_flags |-> << << "V", "e", "g", "a", "n" >> >>]
PlainTofu ==
    [name |-> << "T", "o", "f", "u" >>, description |-> << >>, calories |-> NoneVal,
     protein_g |-> Whole(8), dietary_flags |-> << >>]
Egg ==
    [name |-> << "E", "g", "g" >>, description |-> << >>, calories |-> Whole(90),
     protein_g |-> Whole(6), dietary_flags |-> << << "V", "e", "g", "e", "t", "a", "r", "i", "a", "n" >> >>]

\* all_menus: the catalogs build_rag_from_menus is called with.  In the second
\* a hall has a station without items, in the third a station lists a name twice.
Catalogs ==
    { << [hall |-> << "N", "o", "r", "t", "h" >>, menu |-> << [station |-> << "G" >>, items |-> << Tofu >>] >>],
         [hall |-> << "S", "o", "u", "t", "h" >>, menu |-> << [station |-> << "G" >>, items |-> << Egg >>] >>] >>,
      << [hall |-> << "N", "o", "r", "t", "h" >>, menu |-> << [station |-> << "G" >>, items |-> << Tofu >>] >>],
         [hall |-> << "S", "o", "u", "t", "h" >>, menu |-> << [station |-> << "G" >>, items |-> << >>] >>] >>,
      << [hall |-> << "N", "o", "r", "t", "h" >>, menu |-> << [station |-> << "G" >>, items |-> << Tofu, PlainTofu >>] >>],
         [hall |-> << "S", "o", "u", "t", "h" >>, menu |-> << [station |-> << "G" >>, items |-> << Egg >>] >>] >> }

\* the arguments of search
SearchCalls ==
    { [query |-> << "t", "o", "f", "u" >>, top_k |-> 2,
       hall_filter |-> NoneVal, dietary_filter |-> NoneVal],
      [query |-> << "t", "o", "f", "u" >>, top_k |-> -1,
       hall_filter |-> NoneVal, dietary_filter |-> NoneVal],
      [query |-> << "t", "o", "f", "u" >>, top_k |-> 1,
       hall_filter |-> NoneVal, dietary_filter |-> List(<< << "v", "e", "g", "a", "n" >> >>)],
      [query |-> << "R", "i", "c", "e", " ", "e", "g", "g" >>, top_k |-> 1,
       hall_filter |-> NoneVal, dietary_filter |-> List(<< << "v", "e", "g", "a", "n" >> >>)],
      [query |-> << "t", "o", "f", "u" >>, top_k |-> 0,
       hall_filter |-> Str(<< "n", "o", "r", "t", "h" >>), dietary_filter |-> NoneVal],
      [query |-> << "R", "i", "c", "e", " ", "e", "g", "g" >>, top_k |-> 2,
       hall_filter |-> Str(<< "n", "o", "r", "t", "h" >>), dietary_filter |-> List(<< << "v", "e", "g", "a", "n" >> >>)] }

\* the arguments of score_halls_for_user
Preferences ==
    { [goal |-> << "t", "o", "f", "u" >>, restrictions |-> << "V", "e", "g", "a", "n" >>],
      [goal |-> << "e", "g", "g" >>, preferences |-> << "r", "i", "c", "e" >>] }
TopNs == { 1, 2 }

\* the variables take the fields of the object
Becomes(self) ==
    /\ documents' = self.documents
    /\ inverted_index' = self.inverted_index
    /\ idf' = self.idf
    /\ doc_lengths' = self.doc_lengths
    /\ avg_doc_length' = self.avg_doc_length
    /\ built' = self.built

\* rag.add_document(doc_id, text, metadata)
AddDocument(doc) ==
    /\ Len(documents) < MaxDocs
    /\ \E self \in { add_document(Self, doc.id, doc.text, doc.metadata) } : Becomes(self)
    /\ catalog' = NoneVal
    /\ called' = [op |-> "add_document", doc_id |-> doc.id]
    /\ UNCHANGED build_called
    /\ UNCHANGED << loopVars, cacheVars, dietVars, toolVars >>

\* rag.build_index(); before records the idf the call began with
BuildIndex ==
    /\ \E self \in { build_index(Self) } : Becomes(self)
    /\ called' = [op |-> "build_index", before |-> idf]
    /\ build_called' = TRUE
    /\ UNCHANGED catalog
    /\ UNCHANGED << loopVars, cacheVars, dietVars, toolVars >>

\* rag.search(query, top_k, hall_filter, dietary_filter); lazy records whether the
\* index was not built when the call began
Search(query, top_k, hall_filter, dietary_filter) ==
    /\ \E self \in { Ready(Self) } : Becomes(self)
    /\ \E results \in { search(Self, query, top_k, hall_filter, dietary_filter) } :
           called' = [op |-> "search", query |-> query, top_k |-> top_k,
                      hall_filter |-> hall_filter, dietary_filter |-> dietary_filter,
                      lazy |-> ~built, results |-> results]
    /\ UNCHANGED << catalog, build_called >>
    /\ UNCHANGED << loopVars, cacheVars, dietVars, toolVars >>

\* score_halls_for_user(prefs, rag, top_n)
ScoreHalls(prefs, top_n) ==
    /\ \E self \in { Ready(Self) } : Becomes(self)
    /\ \E results \in { score_halls_for_user(prefs, Self, top_n) } :
           called' = [op |-> "score_halls_for_user", prefs |-> prefs, top_n |-> top_n,
                      results |-> results]
    /\ UNCHANGED << catalog, build_called >>
    /\ UNCHANGED << loopVars, cacheVars, dietVars, toolVars >>

\* rag = build_rag_from_menus(all_menus)
BuildRagFromMenus(all_menus) ==
    /\ called.op = "none"
    /\ \E self \in { build_rag_from_menus(all_menus) } : Becomes(self)
    /\ catalog' = all_menus
    /\ called' = [op |-> "build_rag_from_menus"]
    /\ build_called' = TRUE
    /\ UNCHANGED << loopVars, cacheVars, dietVars, toolVars >>

InitRag == Init /\ flow = "agent" /\ max_turns = 0

NextRag ==
    \/ \E doc \in DocPool : AddDocument(doc)
    \/ BuildIndex
    \/ \E c \in SearchCalls : Search(c.query, c.top_k, c.hall_filter, c.dietary_filter)
    \/ \E prefs \in Preferences, n \in TopNs : ScoreHalls(prefs, n)
    \/ \E all_menus \in Catalogs : BuildRagFromMenus(all_menus)

SpecRag == InitRag /\ [][NextRag]_vars

----------------------------------------------------------------------------
(* The dietary filter on its own: _matches_dietary applied to the metadata  *)
(* of an item and a list of restrictions                                    *)

\* a key the metadata does not have
Absent == [absent |-> TRUE]

\* the values of protein_g and calories: missing, None, numbers around the two
\* thresholds, strings that spell numbers and strings that do not, not-a-number
Nutrition ==
    { Absent, NoneVal, NaN,
      Whole(0), Whole(1), Whole(14), Num(1499), Whole(15), Num(1501), Whole(20),
      Whole(300), Whole(400), Num(40001), Num(40050), Whole(401), Whole(9999),
      Str(<< "1", "5" >>), Str(<< "1", "4", ".", "9", "9" >>), Str(<< " ", "4", "0", "0", " " >>), Str(<< "4", "0", "0", ".", "5" >>),
      Str(<< >>), Str(<< "a", "b", "c" >>), Str(<< "n", "a", "n" >>), Str(<< "i", "n", "f" >>) }

\* the values of dietary_flags
FlagLists ==
    { Absent,
      List(<< >>),
      List(<< << "V", "e", "g", "a", "n" >> >>),
      List(<< << "V", "e", "g", "e", "t", "a", "r", "i", "a", "n" >> >>),
      List(<< << "V", "e", "g", "e", "t", "a", "r", "i", "a", "n" >>, << "G", "l", "u", "t", "e", "n", "-", "F", "r", "e", "e" >> >>),
      List(<< << "S", "p", "i", "c", "y" >>, << "H", "a", "l", "a", "l" >> >>) }

\* the metadata with the keys that are not absent
Item(protein_g, calories, dietary_flags) ==
    [k \in (IF protein_g # Absent THEN { "protein_g" } ELSE {})
            \cup (IF calories # Absent THEN { "calories" } ELSE {})
            \cup (IF dietary_flags # Absent THEN { "dietary_flags" } ELSE {}) |->
        IF k = "protein_g" THEN protein_g
        ELSE IF k = "calories" THEN calories
        ELSE dietary_flags.list]

Items == { Item(p, c, f) : p \in Nutrition, c \in Nutrition, f \in FlagLists }

\* the lists of restrictions _matches_dietary is called with
RestrictionLists ==
    { << >>,
      << << "h", "i", "g", "h", "-", "p", "r", "o", "t", "e", "i", "n" >> >>,
      << << " ", "H", "i", "g", "h", " ", "P", "r", "o", "t", "e", "i", "n" >> >>,
      << << "l", "o", "w", "-", "c", "a", "l", "o", "r", "i", "e" >> >>,
      << << "L", "o", "w", " ", "C", "a", "l", "o", "r", "i", "e", " " >> >>,
      << << "v", "e", "g", "a", "n" >> >>,
      << << "v", "e", "g", "e", "t", "a", "r", "i", "a", "n" >> >>,
      << << "V", "e", "g", "e", "t", "a", "r", "i", "a", "n", " " >> >>,
      << << "k", "o", "s", "h", "e", "r" >> >>,
      << << "s", "p", "i", "c", "y" >> >>,
      << << " ", "S", "p", "i", "c", "y" >> >>,
      << << "c", "y", " ", "h", "a" >> >>,
      << << >> >>,
      << << " " >> >>,
      << << "h", "i", "g", "h", "-", "p", "r", "o", "t", "e", "i", "n" >>, << "l", "o", "w", "-", "c", "a", "l", "o", "r", "i", "e" >> >>,
      << << "l", "o", "w", "-", "c", "a", "l", "o", "r", "i", "e" >>, << "h", "i", "g", "h", "-", "p", "r", "o", "t", "e", "i", "n" >> >>,
      << << "v", "e", "g", "e", "t", "a", "r", "i", "a", "n" >>, << "h", "i", "g", "h", " ", "p", "r", "o", "t", "e", "i", "n" >> >>,
      << << "v", "e", "g", "a", "n" >>, << "v", "e", "g", "e", "t", "a", "r", "i", "a", "n" >> >>,
      << << "v", "e", "g", "e", "t", "a", "r", "i", "a", "n" >>, << "v", "e", "g", "a", "n" >> >>,
      << << "v", "e", "g", "e", "t", "a", "r", "i", "a", "n" >>, << "v", "e", "g", "e", "t", "a", "r", "i", "a", "n" >> >>,
      << << "s", "p", "i", "c", "y" >>, << "h", "a", "l", "a", "l" >>, << "v", "e", "g", "a", "n" >> >>,
      << << "h", "a", "l", "a", "l" >>, << "s", "p", "i", "c", "y" >>, << "h", "a", "l", "a", "l" >> >> }

\* verdict = rag._matches_dietary(metadata, restrictions)
MatchesDietary ==
    /\ verdict = NoneVal
    /\ verdict' = [returned |-> matches_dietary(metadata, restrictions)]
    /\ UNCHANGED << metadata, restrictions >>
    /\ UNCHANGED << loopVars, cacheVars, ragVars, toolVars >>

InitDiet ==
    /\ InitObjects
    /\ flow = "agent"
    /\ max_turns = 0
    /\ metadata \in Items
    /\ restrictions \in RestrictionLists
    /\ verdict = NoneVal
    /\ tool_name = "none"
    /\ tool_input = NoneVal
    /\ tool_world = NoneVal
    /\ tool_return = NoneVal

NextDiet == MatchesDietary

SpecDiet == InitDiet /\ [][NextDiet]_vars

----------------------------------------------------------------------------
(* The dispatchers taken alone: backend/debate_agents.py execute_tool and
   backend/main.py _execute_tool, each called once on inputs drawn from
   bounded sets *)

\* how many documents of the store match the query with a positive score
MaxMatches == 22

\* min(int(tool_input.get("top_k", 10)), 20)
SearchMenuDefault == 10
SearchMenuCap == 20

\* what rag.search has sorted before it truncates: n matches, the best first
Ranked(n) == [i \in 1..n |-> [name |-> << "match", i >>, score |-> n + 1 - i]]

\* the values of top_k the service supplies; Absent for an input without the key
TopKs == { Absent } \cup { Num(k) : k \in { -2, -1, 0, 1, 10, 19, 20, 21, 25 } }

\* the input of search_menu
SearchInput(query, top_k) ==
    [k \in { "query" } \cup (IF top_k # Absent THEN { "top_k" } ELSE {}) |->
        IF k = "query" THEN query ELSE top_k.num]

\* _fmt_item(meta): the line of one item
FmtItem(r) == << "- ", r.name >>

\* execute_tool with tool_name == "search_menu"; int() of an integer is that integer
search_menu(ranked, input) ==
    LET query == Get(input, "query", "")
        top_k == Min(Get(input, "top_k", SearchMenuDefault), SearchMenuCap)
        results == Slice(ranked, top_k)
    IN  IF results = << >>
        THEN [text |-> "No results found for", query |-> query, lines |-> << >>]
        ELSE [text |-> "Search results for", query |-> query,
              lines |-> [i \in 1..Len(results) |-> FmtItem(results[i])]]

\* tool_return = execute_tool("search_menu", tool_input, rag, all_menus)
ExecuteSearchMenu ==
    /\ tool_name = "search_menu"
    /\ tool_return = NoneVal
    /\ tool_return' = search_menu(tool_world.ranked, tool_input)
    /\ UNCHANGED << tool_name, tool_input, tool_world >>
    /\ UNCHANGED << loopVars, cacheVars, ragVars, dietVars >>

InitSearchMenu ==
    /\ tool_name = "search_menu"
    /\ \E n \in 0..MaxMatches : tool_world = [ranked |-> Ranked(n)]
    /\ \E k \in TopKs : tool_input = SearchInput("tofu", k)
    /\ tool_return = NoneVal


\* how many items the catalog holds
MaxItems == 41

\* items[:40]
GetMenuCap == 40

\* the protein_g of the catalog's items, in turn
ProteinCycle == << Num(10), Absent, Num(20), NoneVal, Num(0), Num(20) >>

\* the dietary_flags of the catalog's items, in turn, for each shape of catalog
FlagCycle(shape) ==
    IF shape = "vegan" THEN << List(<< << "V", "e", "g", "a", "n" >> >>), List(<< << "V", "e", "g", "a", "n" >>, << "G", "l", "u", "t", "e", "n", "-", "F", "r", "e", "e" >> >>) >>
    ELSE << List(<< << "V", "e", "g", "a", "n" >> >>), Absent, List(<< << "V", "e", "g", "e", "t", "a", "r", "i", "a", "n" >>, << "G", "l", "u", "t", "e", "n", "-", "F", "r", "e", "e" >> >>), List(<< >>), List(<< << "S", "p", "i", "c", "y" >>, << "H", "a", "l", "a", "l" >> >>) >>

\* the i-th item of a catalog
MenuItem(i, shape) ==
    LET protein_g == ProteinCycle[(i % Len(ProteinCycle)) + 1]
        dietary_flags == FlagCycle(shape)[(i % Len(FlagCycle(shape))) + 1]
    IN  [k \in { "name" } \cup (IF protein_g # Absent THEN { "protein_g" } ELSE {})
                \cup (IF dietary_flags # Absent THEN { "dietary_flags" } ELSE {}) |->
            IF k = "name" THEN << "item", i >>
            ELSE IF k = "protein_g" THEN protein_g
            ELSE dietary_flags.list]

\* all_menus: two halls, the first with two stations, n items in all
AllMenus(n, shape) ==
    << [hall |-> "Branford",
        menu |-> << [station |-> "Grill", items |-> [i \in 1..(n \div 3) |-> MenuItem(i, shape)]],
                    [station |-> "Salad",
                     items |-> [i \in 1..((n \div 2) - (n \div 3)) |-> MenuItem((n \div 3) + i, shape)]] >>],
       [hall |-> "Silliman",
        menu |-> << [station |-> "Grill",
                     items |-> [i \in 1..(n - (n \div 2)) |-> MenuItem((n \div 2) + i, shape)]] >>] >>

\* user_prefs.get("restrictions", []) of the preferences get_menu is called with
PrefRestrictions ==
    { Absent, List(<< >>), List(<< << "v", "e", "g", "a", "n" >> >>), List(<< << "V", "e", "g", "a", "n" >> >>), List(<< << " ", "v", "e", "g", "a", "n" >> >>), List(<< << "v", "e", "g", "e", "t", "a", "r", "i", "a", "n" >>, << "g", "l", "u", "t", "e", "n" >> >>), List(<< << "n", " ", "g" >> >>), List(<< << >> >>),
      List(<< << "v", "e", "g", "a", "n" >>, << "h", "a", "l", "a", "l" >> >>) }

PrefsWith(rs) == [k \in (IF rs # Absent THEN { "restrictions" } ELSE {}) |-> rs.list]

\* " ".join(f.lower() for f in item.get("dietary_flags", []))
MenuFlags(item) ==
    Join([i \in DOMAIN Get(item, "dietary_flags", << >>) |->
              Lower(Get(item, "dietary_flags", << >>)[i])], << " " >>)

\* if restrictions: ... if not all(r in flags for r in restrictions): continue
Kept(item, rs) == rs = << >> \/ \A i \in DOMAIN rs : Contains(MenuFlags(item), rs[i])

\* the dict get_menu appends for an item it keeps
Listed(item, hall, station) ==
    [name |-> item.name, dining_hall |-> hall, station |-> station,
     calories |-> Get(item, "calories", NoneVal),
     protein_g |-> Get(item, "protein_g", NoneVal),
     dietary_flags |-> Get(item, "dietary_flags", << >>)]

\* the items of a station that are kept, in the order of the station
StationItems(hall, st, rs) ==
    LET kept == SelectSeq([i \in DOMAIN st.items |-> [item |-> st.items[i]]],
                          LAMBDA x : Kept(x.item, rs))
    IN  [i \in DOMAIN kept |-> Listed(kept[i].item, hall, st.station)]

\* for hall, menu in all_menus.items(): for station, station_items in menu.items(): ...
CollectItems(all_menus, rs) ==
    Concat([h \in DOMAIN all_menus |->
        Concat([s \in DOMAIN all_menus[h].menu |->
            StationItems(all_menus[h].hall, all_menus[h].menu[s], rs)])])

\* x.get("protein_g") or 0
ProteinKey(x) == IF x.protein_g = NoneVal \/ x.protein_g = Num(0) THEN 0 ELSE x.protein_g.num

\* a sort that keeps the order of the catalog
SortAsCollected(s) == s

RECURSIVE SortByProtein(_)
\* items.sort(key=lambda x: x.get("protein_g") or 0, reverse=True)
SortByProtein(s) ==
    IF Len(s) <= 1 THEN s
    ELSE With(SortByProtein(SubSeq(s, 1, Len(s) - 1)), LAMBDA front :
             LET x == Last(s)
                 ahead == Cardinality({ i \in DOMAIN front : ProteinKey(front[i]) >= ProteinKey(x) })
             IN  SubSeq(front, 1, ahead) \o << x >> \o SubSeq(front, ahead + 1, Len(front)))

\* _execute_tool with name == "get_menu"; meal and all_menus are what _get_menus returned
get_menu(meal, all_menus, user_prefs) ==
    With([i \in DOMAIN Get(user_prefs, "restrictions", << >>) |->
              Lower(Get(user_prefs, "restrictions", << >>)[i])], LAMBDA rs :
    With(SortByProtein(CollectItems(all_menus, rs)), LAMBDA items :
        [meal |-> meal,
         total_items |-> Len(items),
         halls |-> [h \in DOMAIN all_menus |-> all_menus[h].hall],
         items |-> Slice(items, GetMenuCap)]))

\* tool_return = _execute_tool("get_menu", tool_input, user_prefs)
ExecuteGetMenu ==
    /\ tool_name = "get_menu"
    /\ tool_return = NoneVal
    /\ tool_return' = get_menu(tool_world.meal, tool_world.all_menus, tool_world.user_prefs)
    /\ UNCHANGED << tool_name, tool_input, tool_world >>
    /\ UNCHANGED << loopVars, cacheVars, ragVars, dietVars >>

InitGetMenu ==
    /\ tool_name = "get_menu"
    /\ \E n \in 0..MaxItems, shape \in { "vegan", "mixed" }, rs \in PrefRestrictions :
           tool_world = [meal |-> CurrentMeal, all_menus |-> AllMenus(n, shape),
                         user_prefs |-> PrefsWith(rs)]
    /\ tool_input = [meal_type |-> "current"]
    /\ tool_return = NoneVal

InitTools ==
    /\ InitObjects
    /\ flow = "agent"
    /\ max_turns = 0
    /\ metadata = EmptyDict
    /\ restrictions = << >>
    /\ verdict = NoneVal
    /\ InitSearchMenu \/ InitGetMenu

NextTools == ExecuteSearchMenu \/ ExecuteGetMenu

SpecTools == InitTools /\ [][NextTools]_vars

----------------------------------------------------------------------------
(* Notions the properties are stated with, defined apart from the loops *)

\* the budget of the running flow as the property states it
Budget == IF flow = "agent" THEN max_turns ELSE 10

\* the indexes of the requests of one kind
ReqIdx(kind) == { i \in 1..Len(requests) : requests[i].kind = kind }

RECURSIVE TextOfBlocks(_)
\* the text of a response: its text blocks, concatenated
TextOfBlocks(c) ==
    IF c = << >> THEN << >>
    ELSE (IF Head(c).type = "text" THEN Head(c).text ELSE << >>) \o TextOfBlocks(Tail(c))

RECURSIVE UseIds(_)
\* the ids of the invocations of a response, in the order received
UseIds(c) ==
    IF c = << >> THEN << >>
    ELSE (IF Head(c).type = "tool_use" THEN << Head(c).id >> ELSE << >>) \o UseIds(Tail(c))

RECURSIVE ResultIds(_)
\* the ids the results of a tool-result message are tagged with, in order
ResultIds(c) ==
    IF c = << >> THEN << >>
    ELSE (IF Head(c).type = "tool_result" THEN << Head(c).tool_use_id >> ELSE << >>)
         \o ResultIds(Tail(c))

RECURSIVE DispatchedIds(_, _)
\* the ids dispatched on turn t, in dispatch order
DispatchedIds(d, t) ==
    IF d = << >> THEN << >>
    ELSE (IF Head(d).turn = t THEN << Head(d).id >> ELSE << >>) \o DispatchedIds(Tail(d), t)

IsPrefix(a, b) == Len(a) <= Len(b) /\ SubSeq(b, 1, Len(a)) = a

\* the response held is one that ends the loop
TerminalResponse ==
    /\ response # NoneVal
    /\ \/ response.stop_reason = "end_turn"
       \/ \A i \in 1..Len(response.content) : response.content[i].type # "tool_use"

\* the answer of a finished run: the text of run_agent, final_text of run_meal_agent
Answer == IF flow = "agent" THEN result.value ELSE result.value.final_text

\* run_agent ran out of turns: every turn of the budget ended with a tool request
AgentBudgetExhausted == flow = "agent" /\ pc = "done" /\ turn = max_turns

----------------------------------------------------------------------------
(* C1: the turn budget bounds the remote calls. run_agent starts at most    *)
(* max_turns turns and run_meal_agent at most 10 turns plus at most one     *)
(* closing exchange, one turn per loop iteration; every request belongs to  *)
(* a turn inside the budget, and once the budget is exhausted no request is *)
(* in flight or sent.                                                       *)
C1_TurnBudget ==
    /\ Cardinality(ReqIdx("turn")) <= Budget
    /\ \A i, j \in ReqIdx("turn") : requests[i].turn = requests[j].turn => i = j
    /\ \A i \in 1..Len(requests) : requests[i].turn \in 0..(Budget - 1)
    /\ Cardinality(ReqIdx("closing")) <= (IF flow = "meal" THEN 1 ELSE 0)
    /\ Len(requests) <= (IF flow = "agent" THEN 2 * Budget ELSE Budget + 1)
    /\ turn >= Budget => pc \in { "loop", "done" }

\* run_meal_agent used its ten turns and stopped
C1_Witness ==
    /\ flow = "meal" /\ pc = "done" /\ turn = 10
    /\ Cardinality(ReqIdx("turn")) = 10

C3_TerminalResponseEndsLoop ==
    TerminalResponse =>
        /\ pc = "done"
        /\ result.kind = "returned"
        /\ Answer = TextOfBlocks(response.content)
        /\ Len(messages) = Last(requests).nmsgs
        /\ Last(requests).turn = turn
        /\ Last(requests).kind \in { "turn", "retry" }
        /\ \A k \in 1..Len(dispatched) :
              /\ dispatched[k].turn < turn
              /\ \A i \in 1..Len(UseIds(response.content)) :
                    dispatched[k].id # UseIds(response.content)[i]

\* an end_turn response that carries invocations ended a loop after an earlier turn
C3_Witness ==
    /\ TerminalResponse
    /\ response.stop_reason = "end_turn"
    /\ UseIds(response.content) # << >>
    /\ turn >= 1
    /\ pc = "done"

C5_ClosingAfterSendRecommendation ==
    flow = "meal" =>
       \A k \in 1..Len(dispatched) :
          (dispatched[k].name = "send_recommendation"
              /\ Len(messages) >= 2 * dispatched[k].turn + 3) =>
             /\ \E i \in ReqIdx("closing") :
                   requests[i].turn = dispatched[k].turn /\ requests[i].tools
             /\ Cardinality(ReqIdx("closing")) = 1
             /\ \A i \in 1..Len(requests) : requests[i].turn <= dispatched[k].turn
             /\ pc \in { "closing", "done" }
             /\ \A j \in 1..Len(dispatched) : dispatched[j].turn <= dispatched[k].turn

RECURSIVE AccumulatedText(_)
\* the text of all assistant messages of a transcript, concatenated
AccumulatedText(msgs) ==
    IF msgs = << >> THEN << >>
    ELSE (IF Head(msgs).role = "assistant" THEN TextOfBlocks(Head(msgs).content) ELSE << >>)
         \o AccumulatedText(Tail(msgs))

\* the text of the last assistant message of the transcript, empty when there is none
LastTurnText ==
    IF Len(messages) >= 2 THEN TextOfBlocks(messages[Len(messages) - 1].content) ELSE << >>

(* C6 as stated: when every turn of the budget of run_agent ends with a     *)
(* tool request, the loop returns the text accumulated over the turns, or   *)
(* the marker only when no turn produced any text.                          *)
C6_ReturnsAccumulatedText ==
    AgentBudgetExhausted =>
        /\ result.kind = "returned"
        /\ result.value = (IF AccumulatedText(messages) = << >> THEN Marker
                           ELSE AccumulatedText(messages))

(* C6: when every turn of the budget of run_agent ends with a tool request, *)
(* the loop returns normally, and its answer is the text of the last turn's *)
(* response alone, or the marker when that response held no text (or there  *)
(* was no turn at all).                                                     *)
C6_ReturnsLastTurnText ==
    AgentBudgetExhausted =>
        /\ result.kind = "returned"
        /\ Len(messages) = 2 * max_turns + 1
        /\ result.value = (IF LastTurnText = << >> THEN Marker ELSE LastTurnText)

\* the budget ran out, an earlier turn held text, the last one none: the marker
C6_Witness ==
    /\ AgentBudgetExhausted
    /\ max_turns >= 2
    /\ AccumulatedText(messages) # << >>
    /\ LastTurnText = << >>
    /\ result.value = Marker

\* the number of nudges in a message content
NudgeCount(c) == Cardinality({ i \in 1..Len(c) : c[i] = NudgeBlock })

(* C7: in run_agent the results message of turn max_turns - 2 ends with     *)
(* exactly one nudge, after that turn's tool results, and no other message  *)
(* holds a nudge, for every max_turns.                                      *)
C7_NudgeOnSecondToLastTurn ==
    flow = "agent" =>
       /\ \A i \in 1..Len(messages) :
             LET c == messages[i].content
             IN  IF messages[i].role = "user" /\ i >= 3 /\ (i - 3) \div 2 = max_turns - 2
                 THEN /\ NudgeCount(c) = 1
                      /\ Last(c) = NudgeBlock
                      /\ Len(ResultIds(c)) = Len(c) - 1
                      /\ Len(c) >= 2
                 ELSE NudgeCount(c) = 0
       /\ NudgeCount(tool_results) = 0

\* the second-to-last turn dispatched tools and its results message got the nudge
C7_Witness ==
    /\ flow = "agent" /\ max_turns >= 3
    /\ Len(messages) >= 2 * max_turns - 1
    /\ NudgeCount(messages[2 * max_turns - 1].content) = 1

(* C8 as stated: when a turn's request of run_agent fails with an error     *)
(* whose text indicates that tools are unsupported, the turn is re-sent     *)
(* exactly once without the tool set, and no later request of the run       *)
(* offers the tool set.                                                     *)
C8_TextOnlyAfterRetry ==
    flow = "agent" =>
       /\ \A k \in 1..Len(failures) :
             (failures[k].kind = "turn"
                 /\ ({ "tool", "function" } \cap failures[k].error.mentions) # {}) =>
                Cardinality({ i \in ReqIdx("retry") : requests[i].turn = failures[k].turn }) = 1
       /\ \A i \in ReqIdx("retry") :
             /\ ~requests[i].tools
             /\ i > 1 /\ requests[i - 1].kind = "turn" /\ requests[i - 1].turn = requests[i].turn
             /\ \A j \in (i + 1)..Len(requests) : ~requests[j].tools

\* the entries of a tool log agree with the dispatches, one by one
LogMatches(log, d) ==
    /\ Len(log) = Len(d)
    /\ \A k \in 1..Len(d) : log[k].tool = d[k].name /\ log[k].input = d[k].input

(* C9: a failure of a turn's request that is not tool-related ends the run: *)
(* run_meal_agent returns a payload that holds the error, the log of        *)
(* exactly the invocations dispatched before, in order, and no              *)
(* recommendations, summary or final text; run_agent raises the error; no   *)
(* request follows the failed one.                                          *)
C9_TerminalError ==
    \A k \in 1..Len(failures) :
       (failures[k].kind = "turn"
           /\ ({ "tool", "function" } \cap failures[k].error.mentions) = {}) =>
          /\ pc = "done"
          /\ k = Len(failures)
          /\ Last(requests).kind = "turn" /\ Last(requests).turn = failures[k].turn
          /\ turn = failures[k].turn
          /\ \A j \in 1..Len(dispatched) : dispatched[j].turn < failures[k].turn
          /\ flow = "meal" =>
                /\ result.kind = "returned"
                /\ DOMAIN result.value = { "error", "tool_log", "fallback" }
                /\ result.value.error = failures[k].error
                /\ LogMatches(result.value.tool_log, dispatched)
          /\ flow = "agent" =>
                result = [kind |-> "raised", error |-> failures[k].error]

\* run_meal_agent failed on its third turn after three dispatches
C9_Witness ==
    /\ flow = "meal" /\ pc = "done"
    /\ failures # << >> /\ Last(failures).kind = "turn" /\ Last(failures).error.mentions = {}
    /\ turn = 2 /\ Len(dispatched) = 3
    /\ "error" \in DOMAIN result.value

(* C10 as stated: no run ends with a silent empty response: run_agent never *)
(* returns the empty string, and a non-error result of run_meal_agent never *)
(* has empty recommendations, an empty summary and an empty final_text      *)
(* together.                                                                *)
C10_NeverEmptyResponse ==
    result.kind = "returned" =>
       /\ flow = "agent" => result.value # << >>
       /\ (flow = "meal" /\ "error" \notin DOMAIN result.value) =>
             ~ /\ result.value.recommendations = << >>
               /\ result.value.summary = << >>
               /\ result.value.final_text = << >>


----------------------------------------------------------------------------
(* C11 as stated: within one cycle of run_meal_agent the initial meal lookup *)
(* and every invocation of get_menu and get_nutrition observe the same       *)
(* catalog snapshot, also when the cache expires and is refreshed between    *)
(* two of them.                                                              *)
C11_OneSnapshotPerCycle ==
    flow = "meal" =>
        \A i, j \in DOMAIN snapshots : snapshots[i] = snapshots[j]

----------------------------------------------------------------------------
(* C12 as stated: for every document set, query and integer top_k, search    *)
(* returns at most top_k results (none when top_k is not positive) and every *)
(* returned result has a score strictly greater than 0.                      *)
C12_AtMostTopKResults ==
    called.op = "search" =>
        /\ Len(called.results) <= (IF called.top_k > 0 THEN called.top_k ELSE 0)
        /\ \A i \in DOMAIN called.results : called.results[i].score > 0

----------------------------------------------------------------------------
(* C13 as stated: for every store built by add_document calls, duplicate ids *)
(* permitted, every result of a search with a dietary filter R carries       *)
(* metadata that satisfies _matches_dietary for R, and score_halls_for_user  *)
(* sums only scores of documents that satisfy its derived filter: a hall     *)
(* with a score above 0 holds a stored document that satisfies the filter.   *)
C13_FilteredResultsSatisfyFilter ==
    /\ (called.op = "search" /\ called.dietary_filter \notin { NoneVal, List(<< >>) }) =>
           \A i \in DOMAIN called.results :
               matches_dietary(called.results[i].metadata, called.dietary_filter.list)
    /\ called.op = "score_halls_for_user" =>
           \A i \in DOMAIN called.results :
               called.results[i].score > 0 =>
                   \E j \in DOMAIN documents :
                       /\ Get(documents[j].metadata, "hall", << >>) = called.results[i].hall
                       /\ matches_dietary(documents[j].metadata, HallFilter(called.prefs))

\* the restrictions a dietary filter stands for: none for None
RestrictionsOf(filter) == IF filter = NoneVal THEN << >> ELSE filter.list

\* the results of a search as a set
ResultSet(results) == { results[i] : i \in DOMAIN results }

\* search(q, k2, dietary_filter=None) on the index the last search ran on
Unfiltered(k2) == search(Self, called.query, k2, NoneVal, NoneVal)

C15_ExactlyTopNHalls ==
    (called.op = "score_halls_for_user" /\ catalog # NoneVal /\ Len(catalog) >= called.top_n) =>
        /\ Len(called.results) = called.top_n
        /\ \A i, j \in DOMAIN called.results :
               called.results[i].hall = called.results[j].hall => i = j
        /\ \A i, j \in DOMAIN called.results :
               i < j => called.results[i].score >= called.results[j].score

RECURSIVE Replay(_, _)
\* the store after add_document for each of the first n documents of docs, in order
Replay(docs, n) ==
    IF n = 0 THEN NewStore
    ELSE add_document(Replay(docs, n - 1), docs[n].id, docs[n].text, docs[n].metadata)

\* C16: a search on an index that was not built returns what the same sequence of
\* add_document calls, an explicit build_index and then the same search return.
C16_LazyBuildEqualsExplicitBuild ==
    (called.op = "search" /\ called.lazy) =>
        called.results = search(build_index(Replay(documents, Len(documents))), called.query,
                                called.top_k, called.hall_filter, called.dietary_filter)

\* a search built the index of a store with documents and found a result
C16_Witness ==
    /\ called.op = "search"
    /\ called.lazy
    /\ ~build_called
    /\ Len(documents) >= 2
    /\ called.results # << >>

\* the store a single build_index gives after the add_document calls of the stored documents
BuiltOnce == build_index(Replay(documents, Len(documents)))

\* C17: after any interleaving of add_document and build_index calls, a build_index
\* leaves idf, with one entry per indexed term computed from the current number of
\* documents and the term's document frequency, and avg_doc_length as a single
\* build_index over the same documents does; a second build_index changes nothing.
C17_BuildIndexIdempotent ==
    called.op = "build_index" =>
        /\ idf = BuiltOnce.idf
        /\ avg_doc_length = BuiltOnce.avg_doc_length
        /\ documents # << >> => DOMAIN idf = DOMAIN inverted_index
        /\ \A t \in DOMAIN idf : idf[t] = IdfOf(Len(documents), Len(inverted_index[t]))
        /\ build_index(Self) = Self

\* build_index ran on an index built before, and documents added since changed the idf
C17_Witness ==
    /\ called.op = "build_index"
    /\ called.before # << >>
    /\ called.before # idf
    /\ Len(documents) >= 2

\* the sum of the token counts of the first n stored documents
RECURSIVE TokensIn(_, _)
TokensIn(docs, n) == IF n = 0 THEN 0 ELSE TokensIn(docs, n - 1) + Len(Tokenize(docs[n].text))

\* C18 as stated: the length recorded for every stored document is the token count
\* of its own text, and after build_index avg_doc_length is the sum of the token
\* counts of all stored documents divided by their number.
C18_LengthsAndMean ==
    /\ \A i \in DOMAIN documents :
           Get(doc_lengths, documents[i].id, -1) = Len(Tokenize(documents[i].text))
    /\ (called.op = "build_index" /\ documents # << >>) =>
           avg_doc_length.num * Len(documents)
               = TokensIn(documents, Len(documents)) * avg_doc_length.den

\* the number a nutrition value stands for, in hundredths: the value of a number
\* and of a string that spells one; not-a-number and other strings stand for none
IsNumber(v) == Float(v).ok /\ Float(v).kind # "nan"
ReachesUp(v, bound) == Float(v).kind = "inf" \/ (Float(v).kind = "num" /\ Float(v).num >= bound)
ReachesDown(v, bound) == Float(v).kind = "-inf" \/ (Float(v).kind = "num" /\ Float(v).num <= bound)

\* C19 as stated: _matches_dietary(item, ["high-protein"]) is true if and only if
\* the item's protein_g, taken as 0 when missing, is at least 15; a value below 15
\* fails and a value that is not a number fails.
C19_HighProteinThreshold ==
    (verdict # NoneVal /\ restrictions = << << "h", "i", "g", "h", "-", "p", "r", "o", "t", "e", "i", "n" >> >>) =>
        LET protein_g == Get(metadata, "protein_g", NoneVal)
        IN  verdict.returned <=>
                /\ protein_g # NoneVal
                /\ IsNumber(protein_g)
                /\ ReachesUp(protein_g, 15 * Cent)

\* C20 as stated: _matches_dietary(item, ["low-calorie"]) is true if and only if
\* the item has a calories value and that value is at most 400; a missing value
\* fails and every value from 0 to 400 passes.
C20_LowCalorieThreshold ==
    (verdict # NoneVal /\ restrictions = << << "l", "o", "w", "-", "c", "a", "l", "o", "r", "i", "e" >> >>) =>
        LET calories == Get(metadata, "calories", NoneVal)
        IN  verdict.returned <=>
                /\ calories # NoneVal
                /\ IsNumber(calories)
                /\ ReachesDown(calories, 400 * Cent)

\* the restriction as _matches_dietary reads it: lower-cased, without the blanks around it
Keyword(r) == Strip(Lower(r))

\* the restrictions judged by a number, and the keys of the synonym table
IsNumeric(r) == Keyword(r) \in { << "h", "i", "g", "h", "-", "p", "r", "o", "t", "e", "i", "n" >>, << "h", "i", "g", "h", " ", "p", "r", "o", "t", "e", "i", "n" >>, << "l", "o", "w", "-", "c", "a", "l", "o", "r", "i", "e" >>, << "l", "o", "w", " ", "c", "a", "l", "o", "r", "i", "e" >> }
InTable(r) == \E i \in DOMAIN RESTRICTION_SYNONYMS : RESTRICTION_SYNONYMS[i].key = Keyword(r)

\* the flags of the item, lower-cased, and joined with spaces
FlagsOf(md) == [i \in DOMAIN Get(md, "dietary_flags", << >>) |-> Lower(Get(md, "dietary_flags", << >>)[i])]
FlagsStr(md) == Join(FlagsOf(md), << " " >>)

\* the verdict on a single keyword restriction
OneKeyword == verdict # NoneVal /\ Len(restrictions) = 1 /\ ~IsNumeric(restrictions[1])

\* the clauses of C21 about the synonyms: "vegan" passes ["vegetarian"],
\* "vegetarian" does not pass ["vegan"], and a restriction absent from the table
\* passes exactly when it is a substring of the joined flags
SynonymClauses ==
    /\ (FlagsOf(metadata) = << << "v", "e", "g", "a", "n" >> >> /\ Keyword(restrictions[1]) = << "v", "e", "g", "e", "t", "a", "r", "i", "a", "n" >>)
           => verdict.returned
    /\ (FlagsOf(metadata) = << << "v", "e", "g", "e", "t", "a", "r", "i", "a", "n" >> >> /\ Keyword(restrictions[1]) = << "v", "e", "g", "a", "n" >>)
           => ~verdict.returned
    /\ ~InTable(restrictions[1])
           => (verdict.returned <=> Contains(FlagsStr(metadata), Keyword(restrictions[1])))

\* C21 as stated: keyword restrictions use one-way synonym containment, an item
\* with no flags passes no keyword restriction, and a restriction absent from the
\* synonym table passes exactly when it is a substring of the lower-cased,
\* space-joined flags.
C21_OneWaySynonyms ==
    OneKeyword =>
        /\ SynonymClauses
        /\ FlagsOf(metadata) = << >> => ~verdict.returned

\* C21 amended: as C21, but an item with no flags passes no keyword restriction
\* other than the empty one; the empty restriction, a substring of every string,
\* passes every item.
C21_OneWaySynonymsButEmpty ==
    OneKeyword =>
        /\ SynonymClauses
        /\ (FlagsOf(metadata) = << >> /\ Keyword(restrictions[1]) # << >>) => ~verdict.returned
        /\ Keyword(restrictions[1]) = << >> => verdict.returned

\* an item flagged only "Vegan" was asked for ["vegetarian"] and passed
C21_Witness ==
    /\ OneKeyword
    /\ Get(metadata, "dietary_flags", << >>) = << << "V", "e", "g", "a", "n" >> >>
    /\ Keyword(restrictions[1]) = << "v", "e", "g", "e", "t", "a", "r", "i", "a", "n" >>
    /\ verdict.returned

\* the lists with the restrictions of rs, in any order, each at least once, of up to n entries
Rearranged(rs, n) ==
    { s \in UNION { [1..k -> { rs[i] : i \in DOMAIN rs }] : k \in 0..n } :
        { s[i] : i \in DOMAIN s } = { rs[i] : i \in DOMAIN rs } }

\* C22: _matches_dietary is the logical AND of its restrictions: the verdict on
\* R1 ++ R2 is the verdict on R1 and the verdict on R2, it does not depend on the
\* order or the repetition of the restrictions, and the empty list passes.
C22_ConjunctionOfRestrictions ==
    verdict # NoneVal =>
        /\ verdict.returned
               <=> \A i \in DOMAIN restrictions : PassesRestriction(metadata, restrictions[i])
        /\ \A n \in 0..Len(restrictions) :
               verdict.returned
                   <=> /\ matches_dietary(metadata, SubSeq(restrictions, 1, n))
                       /\ matches_dietary(metadata, SubSeq(restrictions, n + 1, Len(restrictions)))
        /\ \A rs \in Rearranged(restrictions, Len(restrictions) + 1) :
               matches_dietary(metadata, rs) <=> verdict.returned
        /\ restrictions = << >> => verdict.returned

\* an item passed the first of its restrictions, failed a later one, and was rejected
C22_Witness ==
    /\ verdict # NoneVal
    /\ Len(restrictions) >= 2
    /\ PassesRestriction(metadata, restrictions[1])
    /\ ~PassesRestriction(metadata, restrictions[Len(restrictions)])
    /\ ~verdict.returned

\* the names each dispatcher knows
KnownTools(f) ==
    IF f = "agent" THEN { "search_menu", "filter_by_dietary_need", "compare_nutrition" }
    ELSE { "check_user_goals", "get_menu", "get_nutrition", "send_recommendation" }

\* the content of the tool result for a name the dispatcher does not know:
\* the text of execute_tool, the serialised dict of _execute_tool
UnknownOutcome(f, name) ==
    IF f = "agent" THEN << "Unknown tool: ", name >>
    ELSE << "json", [error |-> << "Unknown tool: ", name >>] >>

\* the invocations of a response, in the order received
UsesIn(content) == SelectSeq(content, LAMBDA b : b.type = "tool_use")

\* result answers invocation tu, and says so if the name of tu is not known
Answers(res, tu) ==
    /\ res.type = "tool_result"
    /\ res.tool_use_id = tu.id
    /\ tu.name \notin KnownTools(flow) => res.content = UnknownOutcome(flow, tu.name)

\* A results message is the last of the transcript in the state that follows its
\* appending: the last message is looked at in every state.
\* C23: an invocation with a name that is not a known tool gets the explicit
\* "Unknown tool" result, paired with its id, in both dispatchers; it raises no
\* exception, and the loop appends the results and goes on as for any other tool.
C23_UnknownToolResult ==
    /\ \A i \in DOMAIN tool_results : Answers(tool_results[i], tool_uses[i])
    /\ (Len(messages) >= 2 /\ Last(messages).role = "user") =>
           \E uses \in { UsesIn(messages[Len(messages) - 1].content) } :
               /\ messages[Len(messages) - 1].role = "assistant"
               /\ Len(Last(messages).content) >= Len(uses)
               /\ \A j \in DOMAIN uses : Answers(Last(messages).content[j], uses[j])
    /\ result.kind = "raised" =>
           /\ failures # << >>
           /\ result.error = failures[Len(failures)].error
    /\ (pc = "dispatch" /\ Len(tool_results) = Len(tool_uses)) => ENABLED (AgentEndTurn \/ MealEndTurn)

\* the results of a turn that invoked an unknown tool are in the transcript and the
\* request of the next turn is out
C23_Witness ==
    /\ pc = "await"
    /\ turn >= 1
    /\ messages[Len(messages)].role = "user"
    /\ \E j \in DOMAIN UsesIn(messages[Len(messages) - 1].content) :
           /\ UsesIn(messages[Len(messages) - 1].content)[j].name = "bogus"
           /\ messages[Len(messages)].content[j].content = UnknownOutcome(flow, "bogus")

----------------------------------------------------------------------------
(* C24: the list of search_menu *)

\* search_menu has been called and has returned
SearchMenuReturned == tool_name = "search_menu" /\ tool_return # NoneVal

\* C24: for every integer top_k the service supplies (0, negative and above 20
\* included) search_menu lists at most 20 items, and at most 10 when top_k is
\* absent; when the search has no result it returns the 'No results found' message.
C24_SearchMenuListsAtMostCap ==
    SearchMenuReturned =>
        /\ Len(tool_return.lines) <= SearchMenuCap
        /\ "top_k" \notin DOMAIN tool_input => Len(tool_return.lines) <= SearchMenuDefault
        /\ tool_return.lines = << >> <=> tool_return.text = "No results found for"

----------------------------------------------------------------------------
(* C25: the items of get_menu *)

\* get_menu has been called and has returned
GetMenuReturned == tool_name = "get_menu" /\ tool_return # NoneVal

\* the restriction keywords supplied with the preferences
Supplied == Get(tool_world.user_prefs, "restrictions", << >>)

\* the items of the catalog, as the set of their places in it
Places ==
    { << h, s, i >> \in (DOMAIN tool_world.all_menus) \X (1..2) \X (1..(MaxItems + 1)) :
          /\ s \in DOMAIN tool_world.all_menus[h].menu
          /\ i \in DOMAIN tool_world.all_menus[h].menu[s].items }

ItemAt(p) == tool_world.all_menus[p[1]].menu[p[2]].items[p[3]]

\* protein with missing protein counted as 0
ProteinOf(item) ==
    IF "protein_g" \in DOMAIN item /\ item.protein_g # NoneVal THEN item.protein_g.num ELSE 0

\* every keyword is present in the lower-cased flags of the item
HasKeywords(item, keywords) ==
    \A k \in DOMAIN keywords : Contains(MenuFlags(item), keywords[k])

\* the contract of get_menu for the keywords the restrictions stand for
GetMenuContract(keywords) ==
    LET items == tool_return.items
        satisfying == { p \in Places : HasKeywords(ItemAt(p), keywords) }
        returned == { p \in satisfying : \E i \in DOMAIN items : items[i].name = ItemAt(p).name }
    IN  /\ Len(items) <= GetMenuCap
        /\ \A i \in DOMAIN items : HasKeywords(items[i], keywords)
        /\ Len(items) = Min(GetMenuCap, Cardinality(satisfying))
        /\ Cardinality(returned) = Len(items)
        /\ \A i, j \in DOMAIN items : i < j => ProteinOf(items[i]) >= ProteinOf(items[j])
        /\ \A p \in satisfying \ returned, i \in DOMAIN items :
               ProteinOf(ItemAt(p)) <= ProteinOf(items[i])

\* C25 as stated: get_menu returns at most 40 items, every returned item has
\* every supplied restriction keyword, as supplied, present in its lower-cased
\* flags, and the returned items are the first 40 of all restriction-satisfying
\* catalog items ordered by non-increasing protein (missing protein counted as 0).
C25_GetMenuKeywordsAsSupplied == GetMenuReturned => GetMenuContract(Supplied)

\* C25, amended: the same with every supplied keyword lower-cased before it is
\* looked for in the lower-cased flags.
C25_GetMenuKeywordsLowerCased ==
    GetMenuReturned => GetMenuContract([k \in DOMAIN Supplied |-> Lower(Supplied[k])])

\* a catalog with more satisfying items than the cap, asked with a capitalised keyword
C25_Witness ==
    /\ GetMenuReturned
    /\ Supplied = << << "V", "e", "g", "a", "n" >> >>
    /\ tool_return.total_items > GetMenuCap
    /\ Len(tool_return.items) = GetMenuCap
    /\ \E i, j \in DOMAIN tool_return.items :
           ProteinOf(tool_return.items[i]) > ProteinOf(tool_return.items[j])

----------------------------------------------------------------------------
(* C26: the tool log of run_meal_agent *)

\* the answers of the service that went into the transcript, in order
AssistantTurns == SelectSeq(messages, LAMBDA m : m.role = "assistant")

\* the run is over, every answer but the last requested one tool and the last,
\* the one held, is plain text
OneToolPerTurnThenText ==
    /\ flow = "meal" /\ pc = "done"
    /\ response # NoneVal
    /\ UsesIn(response.content) = << >>
    /\ \A i \in DOMAIN AssistantTurns : Len(UsesIn(AssistantTurns[i].content)) = 1

\* C26: the tool log holds exactly one entry per dispatched tool invocation, in
\* dispatch order, and nothing else; when the service requests one tool on each
\* of the first n turns and answers with plain text on turn n+1 (within the
\* budget), the loop terminates after turn n+1 with that text and the tool log
\* has exactly n entries.
C26_ToolLogOneEntryPerDispatch ==
    flow = "meal" =>
        /\ Len(tool_log) = Len(dispatched)
        /\ \A i \in DOMAIN tool_log :
               tool_log[i].tool = dispatched[i].name /\ tool_log[i].input = dispatched[i].input
        /\ pc = "done" => result.value.tool_log = tool_log
        /\ OneToolPerTurnThenText =>
               /\ turn = Len(AssistantTurns)
               /\ Len(requests) = Len(AssistantTurns) + 1
               /\ Len(requests) <= Budget
               /\ result.value.final_text = TextOfBlocks(response.content)
               /\ Len(result.value.tool_log) = Len(AssistantTurns)

\* a tool on each of the first two turns, a text on the third
C26_Witness ==
    /\ OneToolPerTurnThenText
    /\ Len(AssistantTurns) = 2
    /\ TextOfBlocks(response.content) # << >>
    /\ Len(result.value.tool_log) = 2

----------------------------------------------------------------------------
(* C27: the payload of send_recommendation *)

\* the dispatches of send_recommendation, in order
Sent == SelectSeq(dispatched, LAMBDA d : d.name = "send_recommendation")

\* block b is the result the dispatcher returned for dispatch d of send_recommendation
Delivered(b, d) ==
    /\ b.type = "tool_result"
    /\ b.tool_use_id = d.id
    /\ b.content = << "json", [status |-> "delivered", captured |-> d.input] >>

\* the result of dispatch d is among the results of the turn or in the transcript
DeliveredSomewhere(d) ==
    \/ \E k \in DOMAIN tool_results : Delivered(tool_results[k], d)
    \/ \E m \in DOMAIN messages :
           /\ messages[m].role = "user"
           /\ \E k \in DOMAIN messages[m].content : Delivered(messages[m].content[k], d)

\* run_meal_agent has returned its structured result, not the error fallback
StructuredResult ==
    flow = "meal" /\ pc = "done" /\ result.kind = "returned" /\ "error" \notin DOMAIN result.value

\* C27: send_recommendation accepts its payload verbatim: the dispatcher returns
\* status 'delivered' with the unchanged payload, and the structured result of
\* run_meal_agent has the recommendations and the summary of the last
\* send_recommendation payload dispatched (empty and the final text for what the
\* payload does not hold); when send_recommendation was never dispatched,
\* recommendations is empty and summary is the final text.
C27_PayloadAcceptedVerbatim ==
    flow = "meal" =>
        /\ \A i \in DOMAIN dispatched :
               dispatched[i].name = "send_recommendation" => DeliveredSomewhere(dispatched[i])
        /\ StructuredResult /\ Sent # << >> =>
               /\ result.value.recommendations = Get(Last(Sent).input, "recommendations", << >>)
               /\ result.value.summary = Get(Last(Sent).input, "summary", result.value.final_text)
        /\ StructuredResult /\ Sent = << >> =>
               /\ result.value.recommendations = << >>
               /\ result.value.summary = result.value.final_text

\* a complete payload sent after an empty one, and a final text that is not its summary
C27_Witness ==
    /\ StructuredResult
    /\ Len(Sent) = 2
    /\ Sent[1].input = PEmpty
    /\ Last(Sent).input = PFull
    /\ result.value.recommendations = PFull.recommendations
    /\ result.value.summary = PFull.summary
    /\ result.value.final_text # PFull.summary

----------------------------------------------------------------------------
(* C28: the order of the results of search *)

\* result r is stored document number p
StoredAt(r, p) ==
    /\ documents[p].id = r.id
    /\ documents[p].text = r.text
    /\ documents[p].metadata = r.metadata

\* the first k elements of a list
FirstK(s, k) == SubSeq(s, 1, Min(Max(k, 0), Len(s)))

\* the results are in non-increasing score order
ScoresDescend ==
    \A i, j \in DOMAIN called.results : i < j => called.results[i].score >= called.results[j].score

\* results with equal scores are in the order in which their documents were added
TiesInOrderAdded ==
    \A i, j \in DOMAIN called.results :
        (i < j /\ called.results[i].score = called.results[j].score) =>
            \E p, q \in DOMAIN documents :
                p < q /\ StoredAt(called.results[i], p) /\ StoredAt(called.results[j], q)

\* search(q, k) is the first k elements of search(q, k2) for every k2 >= k
PrefixOfLarger ==
    \A k2 \in called.top_k..(Len(documents) + 1) :
        called.results = FirstK(search(Self, called.query, k2, called.hall_filter,
                                       called.dietary_filter), called.top_k)

\* C28: search returns its results in non-increasing score order, documents with
\* equal scores appear in the order in which they were added to the store, and
\* truncation to top_k keeps a prefix of that order: search(q, k) is the first k
\* elements of search(q, k') for every k <= k'.
C28_OrderTiesAndPrefix ==
    called.op = "search" => ScoresDescend /\ TiesInOrderAdded /\ PrefixOfLarger

----------------------------------------------------------------------------
(* C29: the index a search scores with *)

\* the terms of the stored documents: add_document gives each term of a document
\* it stores a posting in inverted_index
StoredTerms == DOMAIN inverted_index

\* the number of postings of term t, one for each stored document that holds it
HoldersOf(t) == Len(inverted_index[t])

\* C29: in every state in which search computes scores, the index statistics
\* cover the whole document store: every term of every stored document has an
\* idf entry, and the document count behind idf and avg_doc_length is the current
\* number of stored documents, for every interleaving of add_document,
\* build_index and search (add_document after a build included).
C29_IndexCoversStore ==
    (called.op = "search" /\ documents # << >>) =>
        /\ StoredTerms \subseteq DOMAIN idf
        /\ \A t \in DOMAIN idf : idf[t] = IdfOf(Len(documents), HoldersOf(t))
        /\ avg_doc_length.den = Len(documents)

----------------------------------------------------------------------------
(* C30: the transcript sent to the service *)

\* the transcript starts with the user message, alternates user and assistant
\* messages, ends with a user message, and every assistant message with tool
\* invocations is followed by the user message with the results for their ids
WellFormed(msgs) ==
    /\ msgs # << >>
    /\ msgs[1] = UserMessage
    /\ \A i \in DOMAIN msgs : msgs[i].role = (IF i % 2 = 1 THEN "user" ELSE "assistant")
    /\ Last(msgs).role = "user"
    /\ \A i \in DOMAIN msgs :
           (msgs[i].role = "assistant" /\ UseIds(msgs[i].content) # << >>) =>
               /\ i + 1 \in DOMAIN msgs
               /\ msgs[i + 1].role = "user"
               /\ ResultIds(msgs[i + 1].content) = UseIds(msgs[i].content)

\* Every request is the last of the history in the state that follows its sending,
\* where the loop waits for the answer, and the history is only appended to: the
\* transcript of the last request is looked at there, and compared in every state
\* with the one sent before it and with the transcript as it is now.
\* C30: the transcript sent to the service is well formed on every request of
\* both loops: it starts with the user message, strictly alternates user and
\* assistant messages, ends with a user message, and every assistant message
\* carrying tool invocations is immediately followed by a user message holding the
\* results for exactly those invocation ids; messages already in the transcript
\* are never changed or removed.
C30_TranscriptWellFormed ==
    requests # << >> =>
        /\ pc \in { "await", "retry", "closing" } => WellFormed(Last(requests).messages)
        /\ IsPrefix(Last(requests).messages, messages)
        /\ Len(requests) >= 2 =>
               IsPrefix(requests[Len(requests) - 1].messages, Last(requests).messages)

\* a request whose transcript holds two answered turns, one with two invocations
\* and one with the nudge after its results
C30_Witness ==
    /\ flow = "agent"
    /\ Len(requests) >= 3
    /\ Len(Last(requests).messages) = 5
    /\ \E i \in DOMAIN Last(requests).messages :
           Len(UseIds(Last(requests).messages[i].content)) = 2
    /\ \E i \in DOMAIN Last(requests).messages :
           /\ Last(requests).messages[i].role = "user"
           /\ i > 1
           /\ Last(Last(requests).messages[i].content) = NudgeBlock

====
